---- MODULE Spec2Model ----
(***************************************************************************)
(* State-machine model of the UDP peer's packet plane:                     *)
(*   - LockFreeRingBuffer (include/thread/LockFreeRingBuffer.hpp), with a  *)
(*     producer thread in push and a consumer thread in pop, one step per  *)
(*     shared-memory access;                                               *)
(*   - AppPacket (src/app/AppPacket.cpp): the wire codec, CRC-32 and the   *)
(*     link-health monitor driven by decode.                               *)
(***************************************************************************)
EXTENDS Integers, Sequences, FiniteSets, TLC

(***************************************************************************)
(* Bounds of the model.                                                    *)
(***************************************************************************)
\* Template parameter Capacity of LockFreeRingBuffer (1024 in the program).
Capacity == 3
\* Template parameter MaxPacketSize of LockFreeRingBuffer (2048 in the program).
MaxPacketSize == 1
\* Number of push calls the producer makes in one behaviour.
MaxPushCalls == 4
\* Number of pop calls the consumer makes in one behaviour.
MaxPopCalls == 4
\* Longest payload region handed to setDataPointer that is within the limit.
MaxPayloadLen == 1
\* Number of encode calls made on the TX packet in one behaviour.
MaxEncodeCalls == 2
\* Number of decode calls made on the RX packet in one behaviour.
MaxDecodeCalls == 1
\* Number of link-health calls made on the RX packet in one behaviour.
MaxMonitorCalls == 3
\* Template parameter Capacity of LatencyStats (100000 by default).
StatsCapacity == 3
\* Number of recordSample calls made in one behaviour.
MaxRecordCalls == 5
\* Number of computeStats calls made in one behaviour.
MaxComputeCalls == 1

(***************************************************************************)
(* LockFreeRingBuffer: state.                                              *)
(***************************************************************************)
VARIABLES
    m_buffer,        \* std::array<Packet, Capacity>: slot -> [length, data]
    m_writeIdx,      \* std::atomic<size_t>
    m_readIdx,       \* std::atomic<size_t>
    p_pc,            \* producer's position in push
    p_data,          \* push argument: the caller's bytes
    p_length,        \* push argument: length
    p_currentWrite,  \* push local
    p_nextWrite,     \* push local
    p_ret,           \* result of the last push that returned
    c_pc,            \* consumer's position in pop
    c_maxLength,     \* pop argument
    c_currentRead,   \* pop local
    c_actualLength,  \* pop out-parameter
    c_data,          \* pop out-buffer: the bytes copied out
    c_ret,           \* result of the last pop that returned
    pushed,          \* history: frames of the pushes that returned true
    popped,          \* history: frames of the pops that returned true
    p_calls,         \* history: number of push calls made
    c_calls,         \* history: number of pop calls made
    p_fullAtCall,    \* history: (write+1) mod C = read when push was called
    p_fullAtCheck,   \* history: (write+1) mod C = read when push loaded read
    c_emptyAtCheck,  \* history: read = write when pop loaded write
    c_headAtCheck    \* history: length stored in the head slot at that moment

ringVars == <<m_buffer, m_writeIdx, m_readIdx,
              p_pc, p_data, p_length, p_currentWrite, p_nextWrite, p_ret,
              c_pc, c_maxLength, c_currentRead, c_actualLength, c_data, c_ret,
              pushed, popped, p_calls, c_calls,
              p_fullAtCall, p_fullAtCheck, c_emptyAtCheck, c_headAtCheck>>

(***************************************************************************)
(* AppPacket: constants and state.                                         *)
(***************************************************************************)
APP_PACKET_MAX_DATA_SIZE == 256
APP_PACKET_COMM_TIMEOUT_MS == 1000
APP_PACKET_EXPECTED_INTERVAL_MS == 100
APP_PACKET_INTERVAL_TOLERANCE_US == 5000
\* sizeof(AppPacketHeader), sizeof(AppPacketFooter)
HEADER_SIZE == 8
FOOTER_SIZE == 4
UINT16_MAX == 65535

\* The steady clock is read in ticks of TickUs microseconds, so that 2^32
\* microseconds (the range of the uint32_t casts) is a number TLC can hold.
TickUs == 8
TicksPerMs == 1000 \div TickUs
\* 2^32 microseconds, in ticks.
TwoPow32Us == 536870912
\* 2^32 milliseconds, in periods of 2^32 microseconds.
TwoPow32Ms == 1000

\* A reading of std::chrono::steady_clock, or the duration between two
\* readings: e whole periods of 2^32 microseconds and t ticks more.
TimeOf(e, t) == [e |-> e, t |-> t]
\* durations of n ticks and of n milliseconds, shorter than 2^32 microseconds
Ticks(n) == TimeOf(0, n)
Ms(n) == Ticks(n * TicksPerMs)
\* time + d
After(time, d) ==
    LET sum == time.t + d.t
    IN  TimeOf(time.e + d.e + (sum \div TwoPow32Us), sum % TwoPow32Us)
\* later - earlier
Since(later, earlier) ==
    LET diff == later.t - earlier.t
    IN  IF diff >= 0
        THEN TimeOf(later.e - earlier.e, diff)
        ELSE TimeOf(later.e - earlier.e - 1, diff + TwoPow32Us)
\* Mutant: d > limit.
NoShorterThan_Longer(d, limit) ==
    \/ d.e > limit \div TwoPow32Us
    \/ d.e = limit \div TwoPow32Us /\ d.t > limit % TwoPow32Us

\* d >= limit, for a duration d and a limit in ticks
NoShorterThan(d, limit) ==
    \/ d.e > limit \div TwoPow32Us
    \/ d.e = limit \div TwoPow32Us /\ d.t >= limit % TwoPow32Us

VARIABLES
    tx_packet,       \* main's AppPacket tx_packet
    rx_packet,       \* main's AppPacket rx_packet
    now,             \* the last reading of std::chrono::steady_clock
    tx_payload,      \* the caller's payload region last handed to setDataPointer
    tx_buffer,       \* the bytes the last encode wrote into its buffer
    enc_ret,         \* the last encode's return value
    rx_buffer,       \* the buffer handed to the last decode
    dec_ret,         \* the last decode's return value
    dec_read_end,    \* history: end offset of the buffer bytes the last decode read
    enc_calls,       \* history: number of encode calls made on tx_packet
    dec_calls,       \* history: number of decode calls made on rx_packet
    tx_last,         \* history: the last call made on tx_packet, with its inputs
    tx_sent,         \* history: what the last successful encode put in its frame
    rx_last,         \* history: where the last decoded buffer came from
    rx_faulted,      \* history: a buffer other than an intact frame was decoded
    enc_ok,          \* history: number of encode calls that wrote a frame
    tx_first         \* history: the TX lifesign the behaviour started from

pktVars == <<tx_packet, rx_packet, now, tx_payload, tx_buffer, enc_ret, rx_buffer,
             dec_ret, dec_read_end, enc_calls, dec_calls, tx_last, tx_sent, rx_last,
             rx_faulted, enc_ok, tx_first>>

VARIABLES
    mon_calls,       \* history: number of link-health calls made on rx_packet
    mon_last,        \* history: the last link-health call, its input and its result
    lost_seen,       \* history: isCommLost() returned true since the last reset
    mon_streak       \* history: out-of-tolerance updates of rx_packet in a row

monVars == <<mon_calls, mon_last, lost_seen, mon_streak>>

VARIABLES
    ls_samples,      \* LatencyStats::m_samples
    ls_writeIdx,     \* LatencyStats::m_writeIdx
    ls_count,        \* LatencyStats::m_count
    rec_pc,          \* the recording thread's position in recordSample
    rec_latency_ns,  \* recordSample argument
    rec_idx,         \* recordSample local
    cs_pc,           \* the reading thread's position in computeStats
    cs_totalCount,   \* computeStats local
    cs_writePos,     \* computeStats local
    cs_sorted,       \* computeStats local: the snapshot, sorted once it is complete
    cs_result,       \* the Result of the last computeStats that returned
    ls_recorded,     \* history: the arguments of the recordSample calls that returned
    rec_calls,       \* history: number of recordSample calls made
    cs_calls,        \* history: number of computeStats calls made
    cs_seen,         \* history: ls_recorded when the last computeStats was called
    cs_quiet,        \* history: no recordSample was in progress during that call
    cs_visible       \* history: the number of recordSample calls whose release store
                     \* the reading thread has acquired

lsVars == <<ls_samples, ls_writeIdx, ls_count, rec_pc, rec_latency_ns, rec_idx, cs_pc,
            cs_totalCount, cs_writePos, cs_sorted, cs_result, ls_recorded, rec_calls,
            cs_calls, cs_seen, cs_quiet, cs_visible>>

VARIABLES
    pct_size,       \* sorted.size() of the vector handed to percentile
    pct_pc,         \* "idle", or "returned" once percentile has returned
    pct_p,          \* the percentile asked for, in hundredths of a percent
    pct_ret         \* what percentile returned

pctVars == <<pct_size, pct_pc, pct_p, pct_ret>>

VARIABLES
    tm_running,         \* UdpThreadManager::m_running
    tm_rxThread,        \* m_rxThread: 0, or 1 for the handle of a created thread
    tm_txThread,        \* m_txThread, likewise
    tm_error,           \* m_error
    tm_rxCallback,      \* m_rxCallback != nullptr
    tm_rxPacketCount,   \* m_rxPacketCount
    tm_txPacketCount,   \* m_txPacketCount
    tm_rxDropCount,     \* m_rxDropCount
    tm_txDropCount,     \* m_txDropCount
    tm_firstRxPacket,   \* m_firstRxPacket
    tm_rxQueue,         \* the frames in m_rxQueue, the k-th frame received being <<k>>
    tm_txQueue,         \* the frames in m_txQueue, the oldest first
    tm_rxLatencyStats,  \* m_count of m_rxLatencyStats
    tm_txLatencyStats,  \* m_count of m_txLatencyStats
    tm_rxIntervalStats, \* m_count of m_rxIntervalStats
    start_pc,           \* the main thread's position in start
    stop_pc,            \* the main thread's position in stop
    rxw_pc,             \* the RX worker's position in rxThreadLoop
    rxw_recvLen,        \* rxThreadLoop local
    rxw_errno,          \* errno of the RX worker
    rxw_shouldExit,     \* rxThreadLoop local
    txw_pc,             \* the TX worker's position in txThreadLoop
    txw_txBuffer,       \* txThreadLoop local: the frame popped
    txw_sentLen,        \* txThreadLoop local
    tm_queued,          \* history: the frames for which queueTxPacket returned true
    tm_rejected,        \* history: number of queueTxPacket calls that returned false
    tm_sent,            \* history: the frames handed to send
    tm_sendResults,     \* history: what send returned for each of them
    rxw_received,       \* history: number of receive calls that returned a positive length
    rxw_callbacks,      \* history: number of calls of the RX callback
    tm_starts,          \* history: number of start calls
    tm_stops,           \* history: number of stop calls
    tm_queueCalls       \* history: number of queueTxPacket calls

VARIABLES
    tm_udpNode,         \* m_udpNode: the node handed to start, 0 for nullptr
    tm_config,          \* m_config: the configuration handed to start, 0 for {}
    start_ret,          \* history: what the last start returned ("true", "false"), "none" before
    rxw_created,        \* history: number of RX threads pthread_create has made
    rxw_joined,         \* history: the RX thread handles pthread_join was called on
    txw_created,        \* history: number of TX threads pthread_create has made
    txw_joined          \* history: the TX thread handles pthread_join was called on

tmArgs == <<tm_udpNode, tm_config>>
tmThreads == <<rxw_created, rxw_joined, txw_created, txw_joined>>
tmMain == <<tm_running, tm_rxThread, tm_txThread, tm_error, start_pc, stop_pc, tm_starts,
            tm_stops, tmArgs, start_ret, tmThreads>>
tmRx == <<rxw_pc, rxw_recvLen, rxw_errno, rxw_shouldExit, tm_rxPacketCount, tm_rxDropCount,
          tm_firstRxPacket, tm_rxQueue, tm_rxLatencyStats, tm_rxIntervalStats, rxw_received,
          rxw_callbacks>>
tmTx == <<txw_pc, txw_txBuffer, txw_sentLen, tm_txPacketCount, tm_txLatencyStats, tm_sent,
          tm_sendResults>>
tmQueue == <<tm_txQueue, tm_txDropCount, tm_queued, tm_rejected, tm_queueCalls>>
tmVars == <<tmMain, tmRx, tmTx, tmQueue, tm_rxCallback>>

VARIABLES
    main_pc,              \* the main thread's position in main
    main_ret,             \* main's main_ret
    sh_initialized,       \* SignalHandler::m_initialized
    sh_callbacks,         \* SignalHandler::m_callbacks holds the callback that stops the loop
    s_shutdownRequested,  \* SignalHandler::s_shutdownRequested
    s_signalNumber,       \* SignalHandler::s_signalNumber
    ev_running,           \* EventLoop::m_running
    ev_error,             \* EventLoop::m_error
    main_failed,          \* history: the start-up step that failed, or "none"
    sig_count,            \* history: number of signals delivered
    sig_registered        \* history: a signal was delivered after the callback was registered

mainVars == <<main_pc, main_ret, sh_initialized, sh_callbacks, s_shutdownRequested,
              s_signalNumber, ev_running, ev_error, main_failed, sig_count,
              sig_registered>>

VARIABLES
    rx_access,            \* history: the accesses made to rx_packet's link-health state
    tick_log              \* history: the frames txTimerCallback encoded, the oldest first

progVars == <<rx_access, tick_log>>

vars == <<ringVars, pktVars, monVars, lsVars, pctVars, tmVars, mainVars, progVars>>
\* The variables no ring-buffer step touches, and those no AppPacket codec call
\* touches.
notRing == <<pktVars, monVars, lsVars, pctVars, tmVars, mainVars, progVars>>
notPkt == <<ringVars, monVars, lsVars, pctVars, tmVars, mainVars, progVars>>

Slots == 0 .. (Capacity - 1)

\* struct Packet { uint16_t length; uint8_t data[MaxPacketSize]; }
EmptySlot == [length |-> 0, data |-> [i \in 1 .. MaxPacketSize |-> 0]]

\* Mutant: the value is kept in a wider type and never wraps.
U16_NoWrap(n) == n

\* static_cast<uint16_t>(length)
U16(n) == n % 65536

\* std::memcpy(dst, src, n) on a byte array dst
Memcpy(dst, src, n) == [i \in DOMAIN dst |-> IF i <= n THEN src[i] ELSE dst[i]]

\* The frame a slot holds: its first `length` bytes.
Frame(slot) == [i \in 1 .. slot.length |-> slot.data[i]]

\* Mutant: the length test is missing.
Oversize_Never(length) == FALSE

\* if (length > MaxPacketSize) return false;
Oversize(length) == length > MaxPacketSize

\* (idx + 1) % Capacity
NextIdx(idx) == (idx + 1) % Capacity

\* Mutant: the fullness test never fires.
IsFull_Never(nextWrite, readIdx) == FALSE

\* if (nextWrite == m_readIdx.load(acquire)) return false;
IsFull(nextWrite, readIdx) == nextWrite = readIdx

\* Mutant: the emptiness test never fires.
IsEmpty_Never(currentRead, writeIdx) == FALSE

\* if (currentRead == m_writeIdx.load(acquire)) return false;
IsEmpty(currentRead, writeIdx) == currentRead = writeIdx

\* Mutant: a frame that fits exactly is refused too.
TooSmall_OffByOne(actualLength, maxLength) == actualLength >= maxLength

\* if (actualLength > maxLength) return false;
TooSmall(actualLength, maxLength) == actualLength > maxLength

\* size(): (w >= r) ? (w - r) : (Capacity - r + w)
size == IF m_writeIdx >= m_readIdx
        THEN m_writeIdx - m_readIdx
        ELSE Capacity - m_readIdx + m_writeIdx

\* The byte region the caller hands to its n-th push: `length` bytes, each n, so
\* that frames of different calls differ.
CallerData(length, n) == [i \in 1 .. length |-> n % 256]

InitRing ==
    /\ m_buffer = [s \in Slots |-> EmptySlot]
    /\ m_writeIdx = 0
    /\ m_readIdx = 0
    /\ p_pc = "idle"
    /\ p_data = <<>>
    /\ p_length = 0
    /\ p_currentWrite = 0
    /\ p_nextWrite = 0
    /\ p_ret = FALSE
    /\ c_pc = "idle"
    /\ c_maxLength = 0
    /\ c_currentRead = 0
    /\ c_actualLength = 0
    /\ c_data = <<>>
    /\ c_ret = FALSE
    /\ pushed = <<>>
    /\ popped = <<>>
    /\ p_calls = 0
    /\ c_calls = 0
    /\ p_fullAtCall = FALSE
    /\ p_fullAtCheck = FALSE
    /\ c_emptyAtCheck = FALSE
    /\ c_headAtCheck = 0

producerVars == <<p_pc, p_data, p_length, p_currentWrite, p_nextWrite, p_ret,
                  pushed, p_calls, p_fullAtCall, p_fullAtCheck>>
consumerVars == <<c_pc, c_maxLength, c_currentRead, c_actualLength, c_data, c_ret,
                  popped, c_calls, c_emptyAtCheck, c_headAtCheck>>

(***************************************************************************)
(* push (producer thread).                                                 *)
(***************************************************************************)
\* Entry: the length check, then the relaxed load of the producer's own index.
PushCall(length) ==
    /\ p_pc = "idle"
    /\ p_calls < MaxPushCalls
    /\ p_calls' = p_calls + 1
    /\ p_data' = CallerData(length, p_calls + 1)
    /\ p_length' = length
    /\ p_fullAtCall' = (NextIdx(m_writeIdx) = m_readIdx)
    /\ IF Oversize(length)
       THEN /\ p_ret' = FALSE
            /\ p_pc' = "idle"
            /\ UNCHANGED <<p_currentWrite, p_nextWrite>>
       ELSE /\ p_ret' = p_ret
            /\ p_currentWrite' = m_writeIdx
            /\ p_nextWrite' = NextIdx(m_writeIdx)
            /\ p_pc' = "check"
    /\ UNCHANGED <<m_buffer, m_writeIdx, m_readIdx, pushed, p_fullAtCheck>>
    /\ UNCHANGED <<consumerVars, notRing>>

\* The acquire load of m_readIdx and the fullness test.
PushCheckFull ==
    /\ p_pc = "check"
    /\ p_fullAtCheck' = (NextIdx(m_writeIdx) = m_readIdx)
    /\ IF IsFull(p_nextWrite, m_readIdx)
       THEN /\ p_ret' = FALSE
            /\ p_pc' = "idle"
       ELSE /\ p_ret' = p_ret
            /\ p_pc' = "wlen"
    /\ UNCHANGED <<m_buffer, m_writeIdx, m_readIdx, pushed, p_calls, p_fullAtCall,
                   p_data, p_length, p_currentWrite, p_nextWrite>>
    /\ UNCHANGED <<consumerVars, notRing>>

\* m_buffer[currentWrite].length = static_cast<uint16_t>(length);
PushWriteLength ==
    /\ p_pc = "wlen"
    /\ m_buffer' = [m_buffer EXCEPT ![p_currentWrite].length = U16(p_length)]
    /\ p_pc' = "wdata"
    /\ UNCHANGED <<m_writeIdx, m_readIdx, pushed, p_calls, p_fullAtCall, p_fullAtCheck,
                   p_data, p_length, p_currentWrite, p_nextWrite, p_ret>>
    /\ UNCHANGED <<consumerVars, notRing>>

\* std::memcpy(m_buffer[currentWrite].data, data, length);
PushWriteData ==
    /\ p_pc = "wdata"
    /\ m_buffer' = [m_buffer EXCEPT ![p_currentWrite].data =
                        Memcpy(m_buffer[p_currentWrite].data, p_data, p_length)]
    /\ p_pc' = "publish"
    /\ UNCHANGED <<m_writeIdx, m_readIdx, pushed, p_calls, p_fullAtCall, p_fullAtCheck,
                   p_data, p_length, p_currentWrite, p_nextWrite, p_ret>>
    /\ UNCHANGED <<consumerVars, notRing>>

\* m_writeIdx.store(nextWrite, release); return true;
PushPublish ==
    /\ p_pc = "publish"
    /\ m_writeIdx' = p_nextWrite
    /\ p_ret' = TRUE
    /\ p_pc' = "idle"
    /\ pushed' = Append(pushed, p_data)
    /\ UNCHANGED <<m_buffer, m_readIdx, p_calls, p_fullAtCall, p_fullAtCheck,
                   p_data, p_length, p_currentWrite, p_nextWrite>>
    /\ UNCHANGED <<consumerVars, notRing>>

(***************************************************************************)
(* pop (consumer thread).                                                  *)
(***************************************************************************)
\* Entry: the relaxed load of the consumer's own index.
PopCall(maxLength) ==
    /\ c_pc = "idle"
    /\ c_calls < MaxPopCalls
    /\ c_calls' = c_calls + 1
    /\ c_maxLength' = maxLength
    /\ c_currentRead' = m_readIdx
    /\ c_pc' = "check"
    /\ UNCHANGED <<m_buffer, m_writeIdx, m_readIdx, popped, c_actualLength, c_data,
                   c_ret, c_emptyAtCheck, c_headAtCheck>>
    /\ UNCHANGED <<producerVars, notRing>>

\* The acquire load of m_writeIdx and the emptiness test.
PopCheckEmpty ==
    /\ c_pc = "check"
    /\ c_emptyAtCheck' = (m_readIdx = m_writeIdx)
    /\ c_headAtCheck' = m_buffer[m_readIdx].length
    /\ IF IsEmpty(c_currentRead, m_writeIdx)
       THEN /\ c_ret' = FALSE
            /\ c_pc' = "idle"
       ELSE /\ c_ret' = c_ret
            /\ c_pc' = "rlen"
    /\ UNCHANGED <<m_buffer, m_writeIdx, m_readIdx, popped, c_calls, c_maxLength,
                   c_currentRead, c_actualLength, c_data>>
    /\ UNCHANGED <<producerVars, notRing>>

\* actualLength = m_buffer[currentRead].length; the size test.
PopReadLength ==
    /\ c_pc = "rlen"
    /\ c_actualLength' = m_buffer[c_currentRead].length
    /\ IF TooSmall(m_buffer[c_currentRead].length, c_maxLength)
       THEN /\ c_ret' = FALSE
            /\ c_pc' = "idle"
       ELSE /\ c_ret' = c_ret
            /\ c_pc' = "rdata"
    /\ UNCHANGED <<m_buffer, m_writeIdx, m_readIdx, popped, c_calls, c_maxLength,
                   c_currentRead, c_data, c_emptyAtCheck, c_headAtCheck>>
    /\ UNCHANGED <<producerVars, notRing>>

\* std::memcpy(data, m_buffer[currentRead].data, actualLength);
PopReadData ==
    /\ c_pc = "rdata"
    /\ c_data' = [i \in 1 .. c_actualLength |-> m_buffer[c_currentRead].data[i]]
    /\ c_pc' = "publish"
    /\ UNCHANGED <<m_buffer, m_writeIdx, m_readIdx, popped, c_calls, c_maxLength,
                   c_currentRead, c_actualLength, c_ret, c_emptyAtCheck, c_headAtCheck>>
    /\ UNCHANGED <<producerVars, notRing>>

\* m_readIdx.store((currentRead + 1) % Capacity, release); return true;
PopPublish ==
    /\ c_pc = "publish"
    /\ m_readIdx' = NextIdx(c_currentRead)
    /\ c_ret' = TRUE
    /\ c_pc' = "idle"
    /\ popped' = Append(popped, c_data)
    /\ UNCHANGED <<m_buffer, m_writeIdx, c_calls, c_maxLength, c_currentRead,
                   c_actualLength, c_data, c_emptyAtCheck, c_headAtCheck>>
    /\ UNCHANGED <<producerVars, notRing>>

(***************************************************************************)
(* LockFreeRingBuffer: properties.                                         *)
(***************************************************************************)
\* The slots holding published, not yet released frames, oldest first.
Occupied == [k \in 1 .. size |-> (m_readIdx + k - 1) % Capacity]

ProducerInSlot == p_pc \in {"wlen", "wdata", "publish"}
ConsumerInSlot == c_pc \in {"rlen", "rdata", "publish"}
ProducerStep == p_pc' # p_pc \/ p_calls' # p_calls
ConsumerStep == c_pc' # c_pc
RingUnchanged == UNCHANGED <<m_buffer, m_writeIdx, m_readIdx>>

IsPrefix(s, t) == Len(s) <= Len(t) /\ \A i \in 1 .. Len(s) : s[i] = t[i]

\* The ring holds exactly the accepted frames that were not popped yet, in order.
RingHoldsRest ==
    /\ size = Len(pushed) - Len(popped)
    /\ \A k \in 1 .. size : Frame(m_buffer[Occupied[k]]) = pushed[Len(popped) + k]

\* C1: with one producer in push and one consumer in pop, under every
\* interleaving the frames returned by successful pops are a prefix of the
\* frames accepted by successful pushes (same order, no duplicate, no omission),
\* and the accepted frames not popped yet are still in the ring, in order.
C1_PopsArePrefixOfPushes ==
    /\ IsPrefix(popped, pushed)
    /\ RingHoldsRest

\* Capacity frames accepted (the write index has wrapped) and at least one push
\* refused, Capacity-1 differing frames popped, the consumer inside a further pop.
C1_Witness ==
    /\ Len(pushed) = Capacity
    /\ Len(popped) = Capacity - 1
    /\ popped[1] # popped[2]
    /\ p_calls > Len(pushed)
    /\ c_pc = "rdata"

\* C2: the producer is never inside a slot (from passing the fullness test to
\* publishing) that the consumer is inside (from passing the emptiness test to
\* releasing); the slot the producer writes is outside the published range, and
\* the slot the consumer reads is the published head, completely written.
C2_NoSlotSharedByWriterAndReader ==
    /\ (ProducerInSlot /\ ConsumerInSlot) => p_currentWrite # c_currentRead
    /\ ProducerInSlot =>
          /\ p_currentWrite = m_writeIdx
          /\ \A k \in 1 .. size : Occupied[k] # p_currentWrite
    /\ ConsumerInSlot =>
          /\ c_currentRead = m_readIdx
          /\ size >= 1
          /\ Len(pushed) > Len(popped)
          /\ Frame(m_buffer[c_currentRead]) = pushed[Len(popped) + 1]

\* The producer is between its two slot writes while the consumer is between
\* its two slot reads, after the indices have wrapped.
C2_Witness ==
    /\ p_pc = "wdata"
    /\ c_pc = "rdata"
    /\ Len(pushed) >= Capacity - 1
    /\ p_currentWrite < c_currentRead

PushReturned == p_pc = "idle" /\ p_calls > 0
PopReturned == c_pc = "idle" /\ c_calls > 0

\* C3 as stated: every push returns false iff (write_idx + 1) mod Capacity =
\* read_idx when it was called.
C3_Original_FalseIffFullAtCall ==
    PushReturned => ((p_ret = FALSE) <=> p_fullAtCall)

\* C3, amended: a push with length <= MaxPacketSize returns false iff
\* (write_idx + 1) mod Capacity = read_idx at the moment it loads the read
\* index; a push with length > MaxPacketSize returns false whatever the indices.
C3_FalseIffFullAtCheckOrOversize ==
    PushReturned =>
        IF p_length > MaxPacketSize
        THEN p_ret = FALSE
        ELSE (p_ret = FALSE) <=> p_fullAtCheck

\* A push of a valid length was refused by a full ring after pops had happened.
C3_Witness ==
    /\ PushReturned
    /\ p_ret = FALSE
    /\ p_length <= MaxPacketSize
    /\ p_fullAtCheck
    /\ Len(popped) >= 1

C4_Inv ==
    /\ size <= Capacity - 1
    /\ RingHoldsRest
    /\ IsPrefix(popped, pushed)
    /\ (PushReturned /\ p_length <= MaxPacketSize /\ Len(popped) = 0) =>
           IF p_ret THEN Len(pushed) <= Capacity - 1 ELSE Len(pushed) = Capacity - 1

C4_FailedPushStep ==
    (ProducerStep /\ p_pc' = "idle" /\ p_ret' = FALSE) => RingUnchanged

\* C4: the ring never holds more than Capacity-1 frames; while nothing has been
\* popped, a push of a frame succeeds iff fewer than Capacity-1 frames were
\* accepted before it; a push that returns false changes neither index nor any
\* slot; the pops return the stored frames oldest first.
C4_AtMostCapacityMinusOne == [](C4_Inv) /\ [][C4_FailedPushStep]_vars

\* With nothing popped, Capacity-1 frames are stored and a further push of a
\* frame has just been refused.
C4_Witness ==
    /\ PushReturned
    /\ p_ret = FALSE
    /\ p_length <= MaxPacketSize
    /\ Len(popped) = 0
    /\ c_calls = 0
    /\ size = Capacity - 1

C5_Inv ==
    /\ PopReturned => ((c_ret = FALSE) <=> (c_emptyAtCheck \/ c_headAtCheck > c_maxLength))
    /\ (PopReturned /\ c_ret = FALSE /\ ~c_emptyAtCheck) =>
          /\ m_readIdx = c_currentRead
          /\ m_readIdx # m_writeIdx
          /\ m_buffer[m_readIdx].length = c_headAtCheck
          /\ Frame(m_buffer[m_readIdx]) = pushed[Len(popped) + 1]
    /\ IsPrefix(popped, pushed)

C5_FailedPopStep ==
    (ConsumerStep /\ c_pc # "publish") => RingUnchanged /\ UNCHANGED popped

\* C5: pop returns false exactly when the ring is empty or maxLength is smaller
\* than the length stored in the head slot; no step of such a pop changes an
\* index or a slot, and the head frame is still the next frame a pop returns.
C5_PopFalseIffEmptyOrTooSmall == [](C5_Inv) /\ [][C5_FailedPopStep]_vars

\* A pop has just been refused because maxLength is below the head's length.
C5_Witness ==
    /\ PopReturned
    /\ c_ret = FALSE
    /\ ~c_emptyAtCheck
    /\ c_headAtCheck > c_maxLength
    /\ Len(popped) >= 1

NextRing ==
    \/ \E length \in 0 .. (MaxPacketSize + 1) : PushCall(length)
    \/ PushCheckFull
    \/ PushWriteLength
    \/ PushWriteData
    \/ PushPublish
    \/ \E maxLength \in 0 .. MaxPacketSize : PopCall(maxLength)
    \/ PopCheckEmpty
    \/ PopReadLength
    \/ PopReadData
    \/ PopPublish

(***************************************************************************)
(* Fixed-width integers and bytes.                                         *)
(***************************************************************************)
\* A uint32_t is held as its two 16-bit halves (TLC's integers stop at 2^31-1).
U32(hi, lo) == [hi |-> hi, lo |-> lo]
ZeroU32 == U32(0, 0)

RECURSIVE XorN(_, _)
XorN(a, b) == IF a = 0 THEN b
              ELSE IF b = 0 THEN a
              ELSE 2 * XorN(a \div 2, b \div 2) + ((a + b) % 2)
\* a ^ b on bytes
Xor8 == [a \in 0 .. 255 |-> [b \in 0 .. 255 |-> XorN(a, b)]]
Xor16(a, b) == Xor8[a % 256][b % 256] + 256 * Xor8[a \div 256][b \div 256]
\* a ^ b on uint32_t
Xor32(a, b) == U32(Xor16(a.hi, b.hi), Xor16(a.lo, b.lo))
\* a >> 1U on uint32_t
Shr1(a) == U32(a.hi \div 2, (a.lo \div 2) + 32768 * (a.hi % 2))

\* The bytes of a uint16_t and of a uint32_t in memory (little-endian host).
BytesOfU16(n) == <<n % 256, n \div 256>>
BytesOfU32(v) == BytesOfU16(v.lo) \o BytesOfU16(v.hi)
\* Mutant: the 16-bit fields are read most significant byte first.
U16OfBytes_BigEndian(b) == 256 * b[1] + b[2]
U16OfBytes(b) == b[1] + 256 * b[2]
U32OfBytes(b) == U32(U16OfBytes(<<b[3], b[4]>>), U16OfBytes(<<b[1], b[2]>>))

\* buffer[offset] for a buffer of Len(buffer) bytes; a read past the end yields
\* 0 and is reported by the reader's dec_read_end.
ByteAt(buffer, offset) == IF offset < Len(buffer) THEN buffer[offset + 1] ELSE 0
\* The n bytes of buffer from offset on.
BytesAt(buffer, offset, n) == [i \in 1 .. n |-> ByteAt(buffer, offset + i - 1)]

(***************************************************************************)
(* AppPacket::calculateCrc32                                               *)
(***************************************************************************)
\* CRC32_POLYNOMIAL = 0xEDB88320
CRC32_POLYNOMIAL == U32(60856, 33568)
\* 0xFFFFFFFF
AllOnes32 == U32(65535, 65535)

\* Mutant: the polynomial is not folded in when the low bit is set.
CrcShift_NoPolynomial(crc) == Shr1(crc)

\* One turn of the inner loop: if (crc & 1) crc = (crc >> 1) ^ POLY; else crc >>= 1;
CrcShift(crc) == IF crc.lo % 2 # 0 THEN Xor32(Shr1(crc), CRC32_POLYNOMIAL) ELSE Shr1(crc)

\* for (bit = 0; bit < 8; bit++) ...
RECURSIVE CrcBits(_, _)
CrcBits(crc, bit) ==
    IF bit >= 8 THEN crc
    ELSE LET next == CrcShift(crc)
         IN  IF next = next THEN CrcBits(next, bit + 1) ELSE next

\* The body of the outer loop for one idx: crc ^= data[idx]; then the 8 shifts.
CrcByte(crc, byte) == CrcBits(Xor32(crc, U32(0, byte)), 0)

\* for (idx = from; idx < to; idx++) { crc ^= data[idx]; ... }
\* The bytes are taken in ascending order; the range is halved only to keep
\* the evaluation's nesting shallow.
RECURSIVE CrcBytes(_, _, _, _)
CrcBytes(data, from, to, crc) ==
    IF from >= to THEN crc
    ELSE IF to = from + 1 THEN CrcByte(crc, ByteAt(data, from))
    ELSE LET mid  == (from + to) \div 2
             half == CrcBytes(data, from, mid, crc)
         IN  IF half = half THEN CrcBytes(data, mid, to, half) ELSE half

calculateCrc32(data, length) == Xor32(CrcBytes(data, 0, length, AllOnes32), AllOnes32)

(***************************************************************************)
(* AppPacket: the object and its methods, as functions of the object.      *)
(***************************************************************************)
NullPtr == [buf |-> "null", off |-> 0]
PtrTo(buf, off) == [buf |-> buf, off |-> off]

\* AppPacket::AppPacket(), constructed when the clock reads t.
AppPacket(t) ==
    [ m_unique_id            |-> ZeroU32,
      m_lifesign             |-> 0,
      m_data_ptr             |-> NullPtr,
      m_data_length          |-> 0,
      m_crc32                |-> ZeroU32,
      m_rx_lifesign          |-> 0,
      m_rx_lifesign_prev     |-> 0,
      m_last_change_time     |-> t,
      m_last_recv_time       |-> t,
      m_comm_timeout_ms      |-> APP_PACKET_COMM_TIMEOUT_MS,
      m_expected_interval_ms |-> APP_PACKET_EXPECTED_INTERVAL_MS,
      m_tolerance_us         |-> APP_PACKET_INTERVAL_TOLERANCE_US \div TickUs,
      m_last_interval_us     |-> 0,
      m_unstable_counter     |-> 0,
      m_comm_unstable        |-> FALSE,
      m_error                |-> "None" ]

setUniqueId(self, id) == [self EXCEPT !.m_unique_id = id]

\* setDataPointer(data, length); dataNull tells whether data == nullptr.
setDataPointer(self, dataNull, length) ==
    IF dataNull
    THEN [self EXCEPT !.m_error = "InvalidDataPointer",
                      !.m_data_ptr = NullPtr, !.m_data_length = 0]
    ELSE IF length > APP_PACKET_MAX_DATA_SIZE
    THEN [self EXCEPT !.m_error = "DataTooLarge",
                      !.m_data_ptr = NullPtr, !.m_data_length = 0]
    ELSE [self EXCEPT !.m_error = "None",
                      !.m_data_ptr = PtrTo("tx_payload", 0), !.m_data_length = length]

\* if (buffer_size < total_size)
BufferTooSmall(buffer_size, total_size) == buffer_size < total_size

\* encode(buffer, buffer_size); mem is the memory m_data_ptr points into.
\* The result: the object afterwards, the return value, the bytes written.
encode(self, mem, bufferNull, buffer_size) ==
    LET total_size == HEADER_SIZE + self.m_data_length + FOOTER_SIZE
        header == BytesOfU32(self.m_unique_id) \o BytesOfU16(self.m_lifesign)
                  \o BytesOfU16(U16(self.m_data_length))
        copied == IF self.m_data_ptr # NullPtr /\ self.m_data_length > 0
                  THEN BytesAt(mem, self.m_data_ptr.off, self.m_data_length)
                  ELSE <<>>
        offset == HEADER_SIZE + Len(copied)
        crc    == calculateCrc32(header \o copied, offset)
    IN  IF bufferNull
        THEN [self |-> [self EXCEPT !.m_error = "InvalidDataPointer"],
              ret |-> 0, buffer |-> <<>>]
        ELSE IF BufferTooSmall(buffer_size, total_size)
        THEN [self |-> [self EXCEPT !.m_error = "BufferTooSmall"],
              ret |-> 0, buffer |-> <<>>]
        ELSE [self |-> [self EXCEPT !.m_crc32 = crc, !.m_error = "None",
                                    !.m_lifesign = U16(self.m_lifesign + 1)],
              ret |-> offset + FOOTER_SIZE,
              buffer |-> header \o copied \o BytesOfU32(crc)]

\* static_cast<uint32_t>(microseconds), in ticks
CastU32Us(ticks) == ticks % TwoPow32Us
\* Mutant: the microseconds are kept in full.
DurationCastU32Us_NoWrap(d) == d.e * TwoPow32Us + d.t

\* static_cast<uint32_t>(duration_cast<microseconds>(d).count()), in ticks
DurationCastU32Us(d) == d.t
\* static_cast<uint32_t>(duration_cast<milliseconds>(d).count()), as a duration
DurationCastU32Ms(d) == TimeOf(d.e % TwoPow32Ms, d.t)

\* Mutant: an interval on a bound counts as out of tolerance.
OutOfTolerance_BoundsExcluded(interval, lower_bound, upper_bound) ==
    (interval <= lower_bound) \/ (interval >= upper_bound)

\* (interval < lower_bound) || (interval > upper_bound)
OutOfTolerance(interval, lower_bound, upper_bound) ==
    (interval < lower_bound) \/ (interval > upper_bound)

\* Mutant: the streak is incremented as a uint16_t whatever it holds.
NextStreak_Wraps(counter) == (counter + 1) % (UINT16_MAX + 1)

\* if (m_unstable_counter < UINT16_MAX) { m_unstable_counter++; }
NextStreak(counter) == IF counter < UINT16_MAX THEN counter + 1 ELSE counter

\* updateReceivedLifesign(lifesign), the clock reading t
updateReceivedLifesign(self, lifesign, t) ==
    LET expected_us == CastU32Us(self.m_expected_interval_ms * TicksPerMs)
        interval    == DurationCastU32Us(Since(t, self.m_last_recv_time))
        lower_bound == IF expected_us > self.m_tolerance_us
                       THEN expected_us - self.m_tolerance_us ELSE 0
        upper_bound == CastU32Us(expected_us + self.m_tolerance_us)
        unstable    == OutOfTolerance(interval, lower_bound, upper_bound)
        error1      == IF unstable
                       THEN (IF self.m_error = "None"
                             THEN "UnstableCommunication" ELSE self.m_error)
                       ELSE (IF self.m_error = "UnstableCommunication"
                             THEN "None" ELSE self.m_error)
        changed     == lifesign # self.m_rx_lifesign
    IN  [self EXCEPT
            !.m_last_interval_us = interval,
            !.m_last_recv_time   = t,
            !.m_unstable_counter = IF unstable THEN NextStreak(@) ELSE 0,
            !.m_comm_unstable    = unstable,
            !.m_rx_lifesign_prev = self.m_rx_lifesign,
            !.m_rx_lifesign      = lifesign,
            !.m_last_change_time = IF changed THEN t ELSE @,
            !.m_error            = IF changed /\ error1 = "LossOfCommunication"
                                   THEN "None" ELSE error1 ]

\* isCommLost() with the clock reading t:
\* static_cast<uint32_t>(elapsed_ms) >= m_comm_timeout_ms
isCommLost(self, t) ==
    NoShorterThan(DurationCastU32Ms(Since(t, self.m_last_change_time)),
                  self.m_comm_timeout_ms * TicksPerMs)

\* Mutant: the reset clears whatever error the slot holds.
resetCommMonitor_ClearsAnyError(self, t) ==
    [self EXCEPT
        !.m_rx_lifesign      = 0,
        !.m_rx_lifesign_prev = 0,
        !.m_last_change_time = t,
        !.m_last_recv_time   = t,
        !.m_last_interval_us = 0,
        !.m_unstable_counter = 0,
        !.m_comm_unstable    = FALSE,
        !.m_error            = "None" ]

\* resetCommMonitor() with the clock reading t
resetCommMonitor(self, t) ==
    [self EXCEPT
        !.m_rx_lifesign      = 0,
        !.m_rx_lifesign_prev = 0,
        !.m_last_change_time = t,
        !.m_last_recv_time   = t,
        !.m_last_interval_us = 0,
        !.m_unstable_counter = 0,
        !.m_comm_unstable    = FALSE,
        !.m_error            = IF @ \in {"LossOfCommunication", "UnstableCommunication"}
                               THEN "None" ELSE @ ]

\* if (buffer_size < (HEADER_SIZE + FOOTER_SIZE))
ShorterThanEnvelope(buffer_size) == buffer_size < (HEADER_SIZE + FOOTER_SIZE)

\* Mutant: the footer is left out of the expected size.
ShorterThanDeclared_NoFooter(buffer_size, data_length) ==
    buffer_size < HEADER_SIZE + data_length

\* expected_size = HEADER_SIZE + header.data_length + FOOTER_SIZE;
\* if (buffer_size < expected_size)
ShorterThanDeclared(buffer_size, data_length) ==
    buffer_size < HEADER_SIZE + data_length + FOOTER_SIZE

\* Mutant: the limit is tested against the envelope size instead of the payload limit.
DeclaredTooLarge_WrongLimit(data_length) ==
    data_length > APP_PACKET_MAX_DATA_SIZE + HEADER_SIZE + FOOTER_SIZE

\* if (header.data_length > APP_PACKET_MAX_DATA_SIZE)
DeclaredTooLarge(data_length) == data_length > APP_PACKET_MAX_DATA_SIZE

\* Mutant: the payload pointer is set whatever the length.
PayloadPtr_NeverNull(data_length) == PtrTo("rx_buffer", HEADER_SIZE)

\* if (m_data_length > 0U) m_data_ptr = &buffer[offset]; else m_data_ptr = nullptr;
PayloadPtr(data_length) ==
    IF data_length > 0 THEN PtrTo("rx_buffer", HEADER_SIZE) ELSE NullPtr

\* decode(buffer, buffer_size) with the clock reading t; buffer holds exactly
\* buffer_size bytes. The result: the object afterwards, the return value, and
\* the end offset of the bytes of buffer that were read.
decode(self, bufferNull, buffer, buffer_size, t) ==
    LET unique_id   == U32OfBytes(BytesAt(buffer, 0, 4))
        lifesign    == U16OfBytes(BytesAt(buffer, 4, 2))
        data_length == U16OfBytes(BytesAt(buffer, 6, 2))
        stored      == updateReceivedLifesign(
                           [self EXCEPT !.m_unique_id = unique_id,
                                        !.m_data_length = data_length],
                           lifesign, t)
        offset      == HEADER_SIZE + data_length
        footer      == U32OfBytes(BytesAt(buffer, offset, FOOTER_SIZE))
        computed    == calculateCrc32(buffer, HEADER_SIZE + data_length)
        viewed      == [stored EXCEPT
                           !.m_data_ptr = PayloadPtr(data_length),
                           !.m_crc32 = footer]
    IN  IF bufferNull
        THEN [self |-> [self EXCEPT !.m_error = "InvalidDataPointer"],
              ret |-> FALSE, read_end |-> 0]
        ELSE IF ShorterThanEnvelope(buffer_size)
        THEN [self |-> [self EXCEPT !.m_error = "InvalidPacket"],
              ret |-> FALSE, read_end |-> 0]
        ELSE IF ShorterThanDeclared(buffer_size, data_length)
        THEN [self |-> [self EXCEPT !.m_error = "InvalidPacket"],
              ret |-> FALSE, read_end |-> HEADER_SIZE]
        ELSE IF DeclaredTooLarge(data_length)
        THEN [self |-> [self EXCEPT !.m_error = "DataTooLarge"],
              ret |-> FALSE, read_end |-> HEADER_SIZE]
        ELSE IF computed # footer
        THEN [self |-> [viewed EXCEPT !.m_error = "CrcMismatch"],
              ret |-> FALSE, read_end |-> offset + FOOTER_SIZE]
        ELSE [self |-> [viewed EXCEPT !.m_error = "None"],
              ret |-> TRUE, read_end |-> offset + FOOTER_SIZE]

\* getData(), getDataLength(): the bytes the payload view shows, mem being the
\* memory m_data_ptr points into.
PayloadView(self, mem) ==
    IF self.m_data_ptr = NullPtr THEN <<>>
    ELSE BytesAt(mem, self.m_data_ptr.off, self.m_data_length)

(***************************************************************************)
(* AppPacket: the calls made on tx_packet and rx_packet.                   *)
(***************************************************************************)
\* txTimerCallback's payload literal "Agent Team Test"
TxPayloadLiteral == <<65, 103, 101, 110, 116, 32, 84, 101, 97, 109, 32, 84, 101, 115, 116>>

\* The payload regions handed to setDataPointer: the first bytes of the literal,
\* and one region of one byte more than the limit.
PayloadRegions ==
    {SubSeq(TxPayloadLiteral, 1, n) : n \in 0 .. MaxPayloadLen}
    \cup {[i \in 1 .. (APP_PACKET_MAX_DATA_SIZE + 1) |-> 0]}

\* The identifiers handed to setUniqueId: 0x12345678.
UniqueIds == {U32(4660, 22136)}

\* The TX lifesign the behaviour starts from: the constructor's 0, or a value
\* earlier encodes have advanced it to.
TxLifesignStarts == {0, UINT16_MAX}

\* The buffer sizes handed to encode after a payload region of `requested` bytes
\* was handed to setDataPointer: one byte short of the frame for it, and exact.
EncodeBufferSizes(requested) ==
    LET frame_size == HEADER_SIZE + requested + FOOTER_SIZE
    IN  {frame_size - 1, frame_size}

\* The time between two clock readings: 100 ms.
ClockSteps == {Ms(100)}

\* The memory a payload pointer points into.
Mem(ptr) == IF ptr.buf = "rx_buffer" THEN rx_buffer ELSE tx_payload

NoCall == [op |-> "none", view_length |-> 0, buffer_size |-> 0, lifesign |-> 0]
NoFrame == [unique_id |-> ZeroU32, lifesign |-> 0, payload |-> <<>>, crc |-> ZeroU32]
NoInput == [kind |-> "none", frame |-> <<>>, sent |-> NoFrame, bit |-> 0]

\* The state after construction, the TX lifesign being l (0 after the constructor).
InitPktAt(l) ==
    /\ now = TimeOf(0, 0)
    /\ tx_packet = [AppPacket(TimeOf(0, 0)) EXCEPT !.m_lifesign = l]
    /\ rx_packet = AppPacket(TimeOf(0, 0))
    /\ tx_payload = <<>>
    /\ tx_buffer = <<>>
    /\ enc_ret = 0
    /\ rx_buffer = <<>>
    /\ dec_ret = FALSE
    /\ dec_read_end = 0
    /\ enc_calls = 0
    /\ dec_calls = 0
    /\ tx_last = NoCall
    /\ tx_sent = NoFrame
    /\ rx_last = NoInput
    /\ rx_faulted = FALSE
    /\ enc_ok = 0
    /\ tx_first = l

\* The sender makes its calls before the receiver makes its first: the two
\* packets share nothing but the bytes of tx_buffer.
ReceiverIdle == dec_calls = 0
\* The sender's last call was an encode that wrote a frame.
FrameReady == tx_last.op = "encode" /\ enc_ret > 0

rxSide == <<rx_packet, now, rx_buffer, dec_ret, dec_read_end, dec_calls, rx_last, rx_faulted>>
txSide == <<tx_packet, tx_payload, tx_buffer, enc_ret, enc_calls, tx_last, tx_sent,
            enc_ok, tx_first>>

TxSetUniqueId(id) ==
    /\ ReceiverIdle
    /\ tx_last = NoCall
    /\ UNCHANGED enc_calls
    /\ tx_packet' = setUniqueId(tx_packet, id)
    /\ tx_last' = [tx_last EXCEPT !.op = "setUniqueId"]
    /\ UNCHANGED <<tx_payload, tx_buffer, enc_ret, tx_sent, enc_ok, tx_first>>
    /\ UNCHANGED <<rxSide, notPkt>>

TxSetDataPointer(region) ==
    /\ ReceiverIdle
    /\ UNCHANGED enc_calls
    /\ tx_payload' = region
    /\ tx_packet' = setDataPointer(tx_packet, FALSE, Len(region))
    /\ tx_last' = [tx_last EXCEPT !.op = "setDataPointer", !.view_length = Len(region)]
    /\ UNCHANGED <<tx_buffer, enc_ret, tx_sent, enc_ok, tx_first>>
    /\ UNCHANGED <<rxSide, notPkt>>

TxSetDataPointerNull ==
    /\ ReceiverIdle
    /\ UNCHANGED enc_calls
    /\ tx_packet' = setDataPointer(tx_packet, TRUE, 0)
    /\ tx_last' = [tx_last EXCEPT !.op = "setDataPointer", !.view_length = 0]
    /\ UNCHANGED <<tx_payload, tx_buffer, enc_ret, tx_sent, enc_ok, tx_first>>
    /\ UNCHANGED <<rxSide, notPkt>>

TxEncodeCall(bufferNull, buffer_size) ==
    /\ ReceiverIdle
    /\ enc_calls < MaxEncodeCalls
    /\ \E r \in {encode(tx_packet, Mem(tx_packet.m_data_ptr), bufferNull, buffer_size)} :
        /\ enc_calls' = enc_calls + 1
        /\ tx_packet' = r.self
        /\ enc_ret' = r.ret
        /\ tx_buffer' = r.buffer
        /\ tx_last' = [tx_last EXCEPT !.op = IF bufferNull THEN "encodeNull" ELSE "encode",
                                      !.buffer_size = buffer_size,
                                      !.lifesign = tx_packet.m_lifesign]
        /\ tx_sent' = IF r.ret > 0
                      THEN [unique_id |-> tx_packet.m_unique_id,
                            lifesign  |-> tx_packet.m_lifesign,
                            payload   |-> PayloadView(tx_packet, Mem(tx_packet.m_data_ptr)),
                            crc       |-> r.self.m_crc32]
                      ELSE tx_sent
        /\ enc_ok' = IF r.ret > 0 THEN enc_ok + 1 ELSE enc_ok
        /\ UNCHANGED <<tx_payload, tx_first>>
        /\ UNCHANGED <<rxSide, notPkt>>

TxEncode(buffer_size) == TxEncodeCall(FALSE, buffer_size)
TxEncodeNull == TxEncodeCall(TRUE, 0)

\* The frame with one bit flipped: bit b of byte k is bit 8k+b, b = 0 the lowest.
FlipBit(frame, bit) ==
    [i \in 1 .. Len(frame) |->
        IF i = (bit \div 8) + 1 THEN Xor8[frame[i]][2 ^ (bit % 8)] ELSE frame[i]]

\* A buffer of buffer_size bytes, all 0 but a header declaring `declared` payload bytes.
CraftedBuffer(declared, buffer_size) ==
    [i \in 1 .. buffer_size |-> IF i \in {7, 8} THEN BytesOfU16(declared)[i - 6] ELSE 0]

\* The declared lengths and buffer sizes of the crafted buffers.
CraftedDeclared == {APP_PACKET_MAX_DATA_SIZE, APP_PACKET_MAX_DATA_SIZE + 1}
CraftedSizes ==
    {HEADER_SIZE + FOOTER_SIZE,
     HEADER_SIZE + APP_PACKET_MAX_DATA_SIZE + FOOTER_SIZE,
     HEADER_SIZE + APP_PACKET_MAX_DATA_SIZE + FOOTER_SIZE + 1}

RxDecodeCall(kind, bufferNull, buffer, bit, step) ==
    /\ dec_calls < MaxDecodeCalls
    /\ \E r \in {decode(rx_packet, bufferNull, buffer, Len(buffer), After(now, step))} :
        /\ dec_calls' = dec_calls + 1
        /\ now' = After(now, step)
        /\ rx_buffer' = buffer
        /\ rx_packet' = r.self
        /\ dec_ret' = r.ret
        /\ dec_read_end' = r.read_end
        /\ rx_last' = [kind |-> kind, frame |-> tx_buffer, sent |-> tx_sent, bit |-> bit]
        /\ rx_faulted' = (rx_faulted \/ kind # "wire")
        /\ UNCHANGED <<txSide, notPkt>>

\* The frame arrives as it was encoded.
RxDecodeWire(step) ==
    /\ FrameReady
    /\ RxDecodeCall("wire", FALSE, tx_buffer, 0, step)

\* The frame arrives with one bit flipped.
RxDecodeFlipped(bit, step) ==
    /\ FrameReady
    /\ ~rx_faulted
    /\ RxDecodeCall("flipped", FALSE, FlipBit(tx_buffer, bit), bit, step)

\* Only the first n bytes of the frame arrive.
RxDecodeTruncated(n, step) ==
    /\ FrameReady
    /\ ~rx_faulted
    /\ RxDecodeCall("truncated", FALSE, SubSeq(tx_buffer, 1, n), 0, step)

\* A buffer that no encode produced arrives.
RxDecodeCrafted(declared, buffer_size, step) ==
    /\ FrameReady
    /\ ~rx_faulted
    /\ RxDecodeCall("crafted", FALSE, CraftedBuffer(declared, buffer_size), 0, step)

\* decode is handed a null buffer.
RxDecodeNull(step) ==
    /\ FrameReady
    /\ ~rx_faulted
    /\ RxDecodeCall("null", TRUE, <<>>, 0, step)

(***************************************************************************)
(* AppPacket: properties of encode and decode.                             *)
(***************************************************************************)
\* header.data_length as decode reads it from a buffer of at least 8 bytes
DeclaredLength(buffer) == U16OfBytes(BytesAt(buffer, 6, 2))
\* The last call on rx_packet was a decode of a non-null buffer.
DecodedBuffer == rx_last.kind \in {"wire", "flipped", "truncated", "crafted"}
\* The bit positions of the data_length field: bytes 6 and 7 of the header.
DataLengthBits == (8 * 6) .. (8 * 8 - 1)

\* C6: round trip. Decoding on rx_packet the bytes a successful encode wrote
\* succeeds and yields the sender's unique_id, the TX lifesign that encode put
\* in the frame, the payload's length and bytes, and the CRC stored by decode
\* equals the CRC recomputed over the first 8+N bytes.
C6_RoundTrip ==
    rx_last.kind = "wire" =>
        /\ dec_ret
        /\ rx_packet.m_error = "None"
        /\ rx_packet.m_unique_id = rx_last.sent.unique_id
        /\ rx_packet.m_rx_lifesign = rx_last.sent.lifesign
        /\ rx_packet.m_data_length = Len(rx_last.sent.payload)
        /\ PayloadView(rx_packet, rx_buffer) = rx_last.sent.payload
        /\ rx_packet.m_crc32 = rx_last.sent.crc
        /\ rx_packet.m_crc32 =
               calculateCrc32(rx_buffer, HEADER_SIZE + rx_packet.m_data_length)

\* A frame with the identifier set, a non-empty payload and the largest
\* lifesign has been encoded and decoded.
C6_Witness ==
    /\ rx_last.kind = "wire"
    /\ dec_ret
    /\ rx_packet.m_unique_id \in UniqueIds
    /\ rx_packet.m_rx_lifesign = UINT16_MAX
    /\ rx_packet.m_data_length = MaxPayloadLen
    /\ PayloadView(rx_packet, rx_buffer) = SubSeq(TxPayloadLiteral, 1, MaxPayloadLen)

\* C7 as stated: decoding a frame with any one bit flipped, the buffer length
\* being the frame's, returns false with error CrcMismatch.
C7_Original_AnyFlipIsCrcMismatch ==
    rx_last.kind = "flipped" =>
        ~dec_ret /\ rx_packet.m_error = "CrcMismatch"

\* C7: decoding a frame with one bit flipped, the buffer length being the
\* frame's, returns false with error CrcMismatch when the flipped bit lies
\* outside the data_length field (identifier, lifesign, payload or CRC footer),
\* and returns false with error InvalidPacket when the flip sets a bit of
\* data_length, so that the declared length exceeds what the buffer holds.
C7_FlipRejected ==
    rx_last.kind = "flipped" =>
        /\ rx_last.bit \notin DataLengthBits =>
               ~dec_ret /\ rx_packet.m_error = "CrcMismatch"
        /\ (/\ rx_last.bit \in DataLengthBits
            /\ DeclaredLength(rx_buffer) > DeclaredLength(rx_last.frame)) =>
               ~dec_ret /\ rx_packet.m_error = "InvalidPacket"

\* A frame with a payload was decoded with a payload bit flipped and rejected
\* for its CRC.
C7_Witness ==
    /\ rx_last.kind = "flipped"
    /\ Len(rx_last.sent.payload) > 0
    /\ rx_last.bit \div 8 = HEADER_SIZE
    /\ rx_buffer # rx_last.frame
    /\ ~dec_ret
    /\ rx_packet.m_error = "CrcMismatch"

\* C8 as stated: after setDataPointer was handed a region of more than 256
\* bytes, an encode into a buffer large enough for that region returns 0, the
\* error reads DataTooLarge, no frame is written and the lifesign is not advanced.
C8_EncodeOfOversizeViewFails ==
    (/\ tx_last.op = "encode"
     /\ tx_last.view_length > APP_PACKET_MAX_DATA_SIZE
     /\ tx_last.buffer_size >= HEADER_SIZE + tx_last.view_length + FOOTER_SIZE) =>
        /\ enc_ret = 0
        /\ tx_packet.m_error = "DataTooLarge"
        /\ tx_buffer = <<>>
        /\ tx_packet.m_lifesign = tx_last.lifesign

\* C9 as stated: a buffer of at least 12 bytes whose header declares more than
\* 256 payload bytes is rejected with DataTooLarge, whatever its length.
C9_Original_TooLargeWhateverLength ==
    (/\ DecodedBuffer
     /\ Len(rx_buffer) >= HEADER_SIZE + FOOTER_SIZE
     /\ DeclaredLength(rx_buffer) > APP_PACKET_MAX_DATA_SIZE) =>
        ~dec_ret /\ rx_packet.m_error = "DataTooLarge"

\* C9: a buffer whose header declares data_length greater than 256 and which
\* holds at least 12 + data_length bytes is rejected by decode with error
\* DataTooLarge.
C9_TooLargeWhenComplete ==
    (/\ DecodedBuffer
     /\ DeclaredLength(rx_buffer) > APP_PACKET_MAX_DATA_SIZE
     /\ Len(rx_buffer) >= HEADER_SIZE + DeclaredLength(rx_buffer) + FOOTER_SIZE) =>
        ~dec_ret /\ rx_packet.m_error = "DataTooLarge"

\* A buffer of 269 bytes declaring 257 payload bytes was decoded.
C9_Witness ==
    /\ rx_last.kind = "crafted"
    /\ DeclaredLength(rx_buffer) = APP_PACKET_MAX_DATA_SIZE + 1
    /\ Len(rx_buffer) = HEADER_SIZE + APP_PACKET_MAX_DATA_SIZE + 1 + FOOTER_SIZE
    /\ ~dec_ret
    /\ rx_packet.m_error = "DataTooLarge"

\* C10: a buffer shorter than 12 bytes, or shorter than 12 + the data_length
\* its header declares, is rejected by decode with error InvalidPacket, and
\* decode reads no byte at or past buffer_size.
C10_ShortBufferIsInvalidPacket ==
    (/\ DecodedBuffer
     /\ \/ Len(rx_buffer) < HEADER_SIZE + FOOTER_SIZE
        \/ Len(rx_buffer) < HEADER_SIZE + DeclaredLength(rx_buffer) + FOOTER_SIZE) =>
        /\ ~dec_ret
        /\ rx_packet.m_error = "InvalidPacket"
        /\ dec_read_end <= Len(rx_buffer)

\* A frame with a payload arrived without its last byte: 12 bytes or more, but
\* fewer than its header declares.
C10_Witness ==
    /\ rx_last.kind = "truncated"
    /\ Len(rx_buffer) >= HEADER_SIZE + FOOTER_SIZE
    /\ Len(rx_buffer) < HEADER_SIZE + DeclaredLength(rx_buffer) + FOOTER_SIZE
    /\ ~dec_ret
    /\ rx_packet.m_error = "InvalidPacket"
    /\ dec_read_end = HEADER_SIZE

\* header.lifesign as it stands in the bytes of a frame
FrameLifesign(frame) == U16OfBytes(BytesAt(frame, 4, 2))
\* The last call on tx_packet was an encode that had to fail: a null buffer, or
\* a buffer smaller than 12 + N for the payload view's N bytes.
EncodeHadToFail ==
    \/ tx_last.op = "encodeNull"
    \/ /\ tx_last.op = "encode"
       /\ tx_last.buffer_size < HEADER_SIZE + tx_packet.m_data_length + FOOTER_SIZE

\* C11: every successful encode writes the current TX lifesign into the frame
\* and then advances it by 1 modulo 65536: starting from lifesign tx_first (0
\* after construction), the k-th frame encoded carries (tx_first + k - 1) mod
\* 65536 and the lifesign then reads (tx_first + k) mod 65536; an encode handed
\* a null buffer or a buffer smaller than 12+N returns 0 and leaves the
\* lifesign as it was.
C11_LifesignAdvancesPerFrame ==
    /\ tx_packet.m_lifesign = (tx_first + enc_ok) % (UINT16_MAX + 1)
    /\ (tx_last.op = "encode" /\ enc_ret > 0) =>
           /\ enc_ok > 0
           /\ FrameLifesign(tx_buffer) = (tx_first + enc_ok - 1) % (UINT16_MAX + 1)
    /\ EncodeHadToFail =>
           /\ enc_ret = 0
           /\ tx_packet.m_lifesign = tx_last.lifesign

\* The second frame was encoded after the lifesign wrapped from 65535 to 0.
C11_Witness ==
    /\ tx_first = UINT16_MAX
    /\ enc_ok = 2
    /\ tx_last.op = "encode"
    /\ enc_ret > 0
    /\ FrameLifesign(tx_buffer) = 0
    /\ tx_packet.m_lifesign = 1

\* The link-health state of a packet object: m_rx_lifesign, m_rx_lifesign_prev,
\* m_last_change_time, m_last_recv_time, m_last_interval_us, m_unstable_counter
\* and m_comm_unstable.
LinkHealth(self) ==
    [ m_rx_lifesign      |-> self.m_rx_lifesign,
      m_rx_lifesign_prev |-> self.m_rx_lifesign_prev,
      m_last_change_time |-> self.m_last_change_time,
      m_last_recv_time   |-> self.m_last_recv_time,
      m_last_interval_us |-> self.m_last_interval_us,
      m_unstable_counter |-> self.m_unstable_counter,
      m_comm_unstable    |-> self.m_comm_unstable ]

\* A step that is a call of decode on rx_packet which returned false with one
\* of the errors of a rejected frame.
RejectedDecodeStep ==
    /\ dec_calls' = dec_calls + 1
    /\ ~dec_ret'
    /\ rx_packet'.m_error \in {"InvalidPacket", "DataTooLarge", "CrcMismatch"}

\* C12: a decode that is rejected (InvalidPacket, DataTooLarge or CrcMismatch)
\* leaves the link-health state unchanged: the last and previous received
\* lifesign, the two instants, the last interval, the unstable streak and the
\* unstable flag are the same after the rejected decode as before it.
\* The code does not satisfy this: decode calls updateReceivedLifesign before
\* it tests the CRC, so a frame rejected with CrcMismatch has already updated
\* the link-health state.
C12_RejectedDecodeKeepsLinkHealth ==
    [][RejectedDecodeStep => LinkHealth(rx_packet') = LinkHealth(rx_packet)]_vars

\* A step that is a call of decode on rx_packet which returned false.
FailedDecodeStep ==
    /\ dec_calls' = dec_calls + 1
    /\ ~dec_ret'

\* The fields decode stores for the frame in the buffer: the identifier and the
\* declared length of its header, the pointer to its payload, its footer.
FrameFields(buffer) ==
    [ m_unique_id   |-> U32OfBytes(BytesAt(buffer, 0, 4)),
      m_data_length |-> DeclaredLength(buffer),
      m_data_ptr    |-> IF DeclaredLength(buffer) > 0
                        THEN PtrTo("rx_buffer", HEADER_SIZE) ELSE NullPtr,
      m_crc32       |-> U32OfBytes(BytesAt(buffer, HEADER_SIZE + DeclaredLength(buffer),
                                           FOOTER_SIZE)) ]

\* unique_id, data_length, the payload view and the stored CRC of a packet.
StoredFields(self) ==
    [ m_unique_id   |-> self.m_unique_id,
      m_data_length |-> self.m_data_length,
      m_data_ptr    |-> self.m_data_ptr,
      m_crc32       |-> self.m_crc32 ]

\* C37: a decode rejected with InvalidDataPointer, InvalidPacket or
\* DataTooLarge changes only the error slot and leaves unique_id, data_length,
\* the payload view and the stored CRC as they were; a decode rejected with
\* CrcMismatch has already overwritten unique_id, data_length, the payload view
\* and the stored CRC with the values of the rejected frame.
C37_StateLeftByRejectedDecode ==
    [][FailedDecodeStep =>
        /\ rx_packet'.m_error \in {"InvalidDataPointer", "InvalidPacket", "DataTooLarge"}
               => [rx_packet' EXCEPT !.m_error = rx_packet.m_error] = rx_packet
        /\ rx_packet'.m_error = "CrcMismatch"
               => StoredFields(rx_packet') = FrameFields(rx_buffer')
        /\ rx_packet'.m_error \in {"InvalidDataPointer", "InvalidPacket", "DataTooLarge",
                                   "CrcMismatch"}
      ]_vars

\* A frame with an empty payload and a flipped bit was rejected with
\* CrcMismatch, and the packet holds the frame's identifier and footer with a
\* null payload pointer.
C37_Witness ==
    /\ rx_last.kind = "flipped"
    /\ ~dec_ret
    /\ rx_packet.m_error = "CrcMismatch"
    /\ rx_packet.m_unique_id # ZeroU32
    /\ rx_packet.m_crc32 # ZeroU32
    /\ rx_packet.m_data_length = 0
    /\ rx_packet.m_data_ptr = NullPtr
    /\ StoredFields(rx_packet) = FrameFields(rx_buffer)

(***************************************************************************)
(* AppPacket: the link-health monitor of rx_packet.                        *)
(***************************************************************************)

\* setCommTimeout(timeout_ms)
setCommTimeout(self, timeout_ms) == [self EXCEPT !.m_comm_timeout_ms = timeout_ms]

\* setExpectedInterval(interval_ms, tolerance_us), the tolerance in ticks
setExpectedInterval(self, interval_ms, tolerance_us) ==
    [self EXCEPT !.m_expected_interval_ms = interval_ms,
                 !.m_tolerance_us = tolerance_us]

\* The settings handed to setExpectedInterval: main's 100 ms with the default
\* tolerance of 5000 us, 1 ms with a tolerance longer than the interval, and
\* 100 ms with the longest tolerance a uint32_t holds (2^32 - 8 us).
MonitorSettings ==
    { [interval_ms |-> APP_PACKET_EXPECTED_INTERVAL_MS,
       tolerance_us |-> APP_PACKET_INTERVAL_TOLERANCE_US \div TickUs],
      [interval_ms |-> 1,
       tolerance_us |-> APP_PACKET_INTERVAL_TOLERANCE_US \div TickUs],
      [interval_ms |-> APP_PACKET_EXPECTED_INTERVAL_MS,
       tolerance_us |-> TwoPow32Us - 1] }

\* The object after n calls of updateReceivedLifesign(0) made on a new object
\* within the tick of its construction at t, 0 < n <= UINT16_MAX: every interval
\* is 0, below the lower bound of the default settings.
AfterUnstableUpdates(n, t) ==
    [AppPacket(t) EXCEPT !.m_unstable_counter = n,
                         !.m_comm_unstable = TRUE,
                         !.m_error = "UnstableCommunication"]

\* The rx_packet objects a behaviour of the monitor starts from: a new object
\* given one of the settings as main does, or one whose unstable streak earlier
\* updates have brought next to its limit.
MonitorStarts ==
    { setExpectedInterval(setCommTimeout(AppPacket(TimeOf(0, 0)), APP_PACKET_COMM_TIMEOUT_MS),
                          c.interval_ms, c.tolerance_us) : c \in MonitorSettings }
    \cup { AfterUnstableUpdates(UINT16_MAX - 1, TimeOf(0, 0)) }

\* The frame a peer's encode writes for the lifesign: identifier 0x12345678 and
\* a payload of one byte.
PeerFrame(lifesign) ==
    LET peer == setDataPointer(
                    setUniqueId([AppPacket(TimeOf(0, 0)) EXCEPT !.m_lifesign = lifesign],
                                U32(4660, 22136)),
                    FALSE, 1)
    IN  encode(peer, <<165>>, FALSE, HEADER_SIZE + 1 + FOOTER_SIZE).buffer

NoMonitorCall == [op |-> "none", lifesign |-> 0, lost |-> FALSE]

\* No link-health call has been made on rx_packet yet; the updates that made
\* the object it starts as were streak out-of-tolerance updates in a row.
InitMonAt(streak) ==
    /\ mon_calls = 0
    /\ mon_last = NoMonitorCall
    /\ lost_seen = FALSE
    /\ mon_streak = streak

InitMon == InitMonAt(0)

\* The out-of-tolerance updates in a row once updateReceivedLifesign has left
\* the object as after.
StreakAfterUpdate(after) == IF after.m_comm_unstable THEN mon_streak + 1 ELSE 0

\* The variables no link-health call touches.
notMon == <<ringVars, lsVars, pctVars, tmVars, mainVars, progVars, txSide, dec_calls, rx_last, rx_faulted>>
decodeOut == <<rx_buffer, dec_ret, dec_read_end>>

\* updateReceivedLifesign(lifesign) called on rx_packet, step after the last
\* clock reading.
MonUpdate(lifesign, step) ==
    /\ mon_calls < MaxMonitorCalls
    /\ mon_calls' = mon_calls + 1
    /\ now' = After(now, step)
    /\ rx_packet' = updateReceivedLifesign(rx_packet, lifesign, After(now, step))
    /\ mon_last' = [op |-> "updateReceivedLifesign", lifesign |-> lifesign, lost |-> FALSE]
    /\ mon_streak' = StreakAfterUpdate(rx_packet')
    /\ UNCHANGED <<lost_seen, decodeOut, notMon>>

\* decode called on rx_packet with the buffer, step after the last clock reading.
MonDecodeEffect(buffer, lifesign, step) ==
    \E r \in {decode(rx_packet, FALSE, buffer, Len(buffer), After(now, step))} :
        /\ mon_calls' = mon_calls + 1
        /\ now' = After(now, step)
        /\ rx_packet' = r.self
        /\ rx_buffer' = buffer
        /\ dec_ret' = r.ret
        /\ dec_read_end' = r.read_end
        /\ mon_last' = [op |-> "decode", lifesign |-> lifesign, lost |-> FALSE]
        /\ mon_streak' = IF r.read_end > HEADER_SIZE
                         THEN StreakAfterUpdate(r.self) ELSE mon_streak
        /\ UNCHANGED lost_seen

MonDecodeCall(buffer, lifesign, step) ==
    /\ mon_calls < MaxMonitorCalls
    /\ MonDecodeEffect(buffer, lifesign, step)
    /\ UNCHANGED notMon

\* A peer's frame with the lifesign arrives intact.
MonDecode(lifesign, step) == MonDecodeCall(PeerFrame(lifesign), lifesign, step)

\* Only the header of a peer's frame arrives.
MonDecodeShort(lifesign, step) ==
    MonDecodeCall(SubSeq(PeerFrame(lifesign), 1, HEADER_SIZE), lifesign, step)

\* isCommLost() called on rx_packet, step after the last clock reading.
MonQuery(step) ==
    /\ mon_calls < MaxMonitorCalls
    /\ mon_calls' = mon_calls + 1
    /\ now' = After(now, step)
    /\ \E lost \in {isCommLost(rx_packet, After(now, step))} :
        /\ mon_last' = [op |-> "isCommLost", lifesign |-> 0, lost |-> lost]
        /\ lost_seen' = (lost_seen \/ lost)
    /\ UNCHANGED <<rx_packet, mon_streak, decodeOut, notMon>>

\* resetCommMonitor() called on rx_packet, step after the last clock reading.
MonReset(step) ==
    /\ mon_calls < MaxMonitorCalls
    /\ mon_calls' = mon_calls + 1
    /\ now' = After(now, step)
    /\ rx_packet' = resetCommMonitor(rx_packet, After(now, step))
    /\ mon_last' = [op |-> "resetCommMonitor", lifesign |-> 0, lost |-> FALSE]
    /\ lost_seen' = FALSE
    /\ mon_streak' = 0
    /\ UNCHANGED <<decodeOut, notMon>>

\* The lifesigns of the frames a peer sends: the one a new monitor holds, and
\* another.
MonitorLifesigns == {0, 1}

\* The times between two clock readings around the bounds of the default
\* tolerance: none, 95 ms, 105 ms, and one tick more than 105 ms.
IntervalSteps == {Ticks(0), Ms(95), Ms(105), After(Ms(105), Ticks(1))}

\* The times between two clock readings around the default timeout: none, one
\* tick less than 1000 ms, and 1000 ms.
TimeoutSteps == {Ticks(0), Ticks(APP_PACKET_COMM_TIMEOUT_MS * TicksPerMs - 1),
                 Ms(APP_PACKET_COMM_TIMEOUT_MS)}

\* The time a monitor is left alone before a query: 2^32 ms.
LongSteps == {TimeOf(TwoPow32Ms, 0)}

\* The time since the last lifesign change, as the clock measures it.
SinceLastChange == Since(now, rx_packet.m_last_change_time)

\* C13: at every query instant isCommLost() returns true if and only if at
\* least comm_timeout_ms milliseconds of monotonic time have elapsed since
\* last_change_instant.
\* The code does not satisfy this: it compares the elapsed milliseconds cast to
\* uint32_t, so 2^32 ms after the last change the query returns false again.
C13_LostIffTimeoutElapsed ==
    (mon_last.op = "isCommLost") =>
        (mon_last.lost <=>
            NoShorterThan(SinceLastChange, rx_packet.m_comm_timeout_ms * TicksPerMs))

\* A step that is a call of isCommLost() on rx_packet.
QueryStep ==
    /\ mon_calls' = mon_calls + 1
    /\ mon_last'.op = "isCommLost"

\* C14: Lost is terminal until reset: once isCommLost() has returned true, it
\* returns true at every later query, whatever frames are received in between,
\* until resetCommMonitor is called.
\* The code does not satisfy this: a frame whose lifesign differs from the last
\* one stamps m_last_change_time, and the next query returns false.
C14_LostIsTerminalUntilReset ==
    [][(QueryStep /\ lost_seen) => mon_last'.lost]_vars

\* A step in which updateReceivedLifesign ran on rx_packet: called directly, or
\* by a decode that went past its header tests.
UpdateStep ==
    /\ mon_calls' = mon_calls + 1
    /\ \/ mon_last'.op = "updateReceivedLifesign"
       \/ mon_last'.op = "decode" /\ Len(rx_buffer') >= HEADER_SIZE + FOOTER_SIZE

\* E = expected_interval_ms * 1000 and T = tolerance_us of rx_packet, in ticks
ExpectedE == rx_packet.m_expected_interval_ms * TicksPerMs
ToleranceT == rx_packet.m_tolerance_us
\* max(0, E - T)
LowerBound == IF ExpectedE - ToleranceT > 0 THEN ExpectedE - ToleranceT ELSE 0
\* The time since the previous update when the step's update runs, in ticks.
IntervalOfStep == Since(now', rx_packet.m_last_recv_time).t

DecodedStep ==
    /\ mon_calls' = mon_calls + 1
    /\ mon_last'.op = "decode"
    /\ dec_ret'

\* The interval of the step's update is within the bounds the code computes.
InToleranceOfStep ==
    /\ LowerBound <= IntervalOfStep
    /\ IntervalOfStep <= (ExpectedE + ToleranceT) % TwoPow32Us

\* C16: after a frame is successfully decoded whose inter-arrival interval is
\* out of tolerance while the error slot was None, the error read through
\* getError() is UnstableCommunication; after a successfully decoded frame with
\* an in-tolerance interval the streak is 0 and the error reads None.
\* The code does not satisfy the first half: decode ends a successful call with
\* m_error = None, which overwrites the UnstableCommunication that
\* updateReceivedLifesign raised a few lines earlier.
C16_UnstableErrorAfterDecode ==
    [][DecodedStep =>
        /\ (~InToleranceOfStep /\ rx_packet.m_error = "None") =>
               rx_packet'.m_error = "UnstableCommunication"
        /\ InToleranceOfStep =>
               /\ rx_packet'.m_unstable_counter = 0
               /\ rx_packet'.m_error = "None"
      ]_vars

\* Every successful decode keeps the last two lifesigns and stamps the instant
\* of a change only.
C17_DecodedStep ==
    DecodedStep =>
        /\ rx_packet'.m_rx_lifesign_prev = rx_packet.m_rx_lifesign
        /\ rx_packet'.m_rx_lifesign = mon_last'.lifesign
        /\ rx_packet'.m_last_change_time =
               IF rx_packet'.m_rx_lifesign # rx_packet'.m_rx_lifesign_prev
               THEN now' ELSE rx_packet.m_last_change_time

\* A query made no later than 1100 ms after the last lifesign change answers
\* false before 1000 ms and true from 1000 ms on.
C17_Inv ==
    (/\ mon_last.op = "isCommLost"
     /\ SinceLastChange.e = 0
     /\ SinceLastChange.t <=
            Ms(APP_PACKET_COMM_TIMEOUT_MS + APP_PACKET_EXPECTED_INTERVAL_MS).t) =>
        (mon_last.lost <=> SinceLastChange.t >= Ms(APP_PACKET_COMM_TIMEOUT_MS).t)

ResetStep ==
    /\ mon_calls' = mon_calls + 1
    /\ mon_last'.op = "resetCommMonitor"

\* C18: resetCommMonitor sets last_change_instant and last_recv_instant to
\* now, sets unstable_streak to 0 and unstable to false, and changes the error
\* slot to None exactly when it read LossOfCommunication or
\* UnstableCommunication; it leaves a codec error in the slot,
\* comm_timeout_ms, expected_interval_ms, tolerance_us and the TX fields
\* (unique_id, TX lifesign, payload view) unchanged, and isCommLost() is false
\* immediately after it when comm_timeout_ms > 0.
C18_ResetEffect ==
    [][ResetStep =>
        /\ rx_packet'.m_last_change_time = now'
        /\ rx_packet'.m_last_recv_time = now'
        /\ rx_packet'.m_unstable_counter = 0
        /\ ~rx_packet'.m_comm_unstable
        /\ rx_packet'.m_error =
               IF rx_packet.m_error \in {"LossOfCommunication", "UnstableCommunication"}
               THEN "None" ELSE rx_packet.m_error
        /\ rx_packet'.m_comm_timeout_ms = rx_packet.m_comm_timeout_ms
        /\ rx_packet'.m_expected_interval_ms = rx_packet.m_expected_interval_ms
        /\ rx_packet'.m_tolerance_us = rx_packet.m_tolerance_us
        /\ rx_packet'.m_unique_id = rx_packet.m_unique_id
        /\ rx_packet'.m_lifesign = rx_packet.m_lifesign
        /\ rx_packet'.m_data_ptr = rx_packet.m_data_ptr
        /\ rx_packet'.m_data_length = rx_packet.m_data_length
        /\ (rx_packet'.m_comm_timeout_ms > 0) => ~isCommLost(rx_packet', now')
      ]_vars

\* A reset was made on an object that had decoded a frame and then rejected a
\* short one: the codec error is still in the slot, the identifier and the
\* payload view of the decoded frame are still there.
C18_Witness ==
    /\ mon_last.op = "resetCommMonitor"
    /\ rx_packet.m_error = "InvalidPacket"
    /\ rx_packet.m_unique_id = U32(4660, 22136)
    /\ rx_packet.m_data_length = 1
    /\ rx_packet.m_data_ptr # NullPtr
    /\ rx_packet.m_last_change_time = now
    /\ rx_packet.m_last_recv_time = now
    /\ now # TimeOf(0, 0)

(***************************************************************************)
(* LatencyStats: one recording thread and one reading thread.               *)
(***************************************************************************)

\* static_cast<double>(ns) / 1000.0: the whole microseconds and the
\* nanoseconds beyond them.
NsToUs(ns) == [us |-> ns \div 1000, ns |-> ns % 1000]
\* a <= b for two results in microseconds
LeqUs(a, b) == a.us < b.us \/ (a.us = b.us /\ a.ns <= b.ns)

\* Result result = {}; the mean and the standard deviation are left out.
ZeroResult ==
    [count |-> 0, min_us |-> NsToUs(0), max_us |-> NsToUs(0), p50_us |-> NsToUs(0),
     p95_us |-> NsToUs(0), p99_us |-> NsToUs(0), p999_us |-> NsToUs(0),
     p9999_us |-> NsToUs(0)]

\* Mutant: the index is stored as it was loaded.
NextWriteIdx_Stays(idx) == idx

\* (idx + 1U) % Capacity
NextWriteIdx(idx) == (idx + 1) % StatsCapacity

\* Mutant: the snapshot always has Capacity elements.
NumSamples_AlwaysCapacity(totalCount) == StatsCapacity

\* numSamples = (totalCount < Capacity) ? totalCount : Capacity
NumSamples(totalCount) ==
    IF totalCount < StatsCapacity THEN totalCount ELSE StatsCapacity

\* The cell of m_samples that std::copy copies to sorted[k]: cell k while the
\* buffer has not wrapped, else the cells from writePos to the end followed by
\* those before writePos.
CopySource(totalCount, writePos, k) ==
    IF totalCount <= StatsCapacity
    THEN k
    ELSE LET firstPart == StatsCapacity - writePos
         IN  IF k < firstPart THEN writePos + k ELSE k - firstPart

RECURSIVE InsertSorted(_, _)
InsertSorted(x, sorted) ==
    IF sorted = <<>> THEN <<x>>
    ELSE IF x <= Head(sorted) THEN <<x>> \o sorted
    ELSE <<Head(sorted)>> \o InsertSorted(x, Tail(sorted))

RECURSIVE SortSamples_KeepOrder(_)
\* Mutant: the snapshot is left in the order it was copied.
SortSamples_KeepOrder(snapshot) ==
    IF snapshot = <<>> THEN <<>>
    ELSE <<Head(snapshot)>> \o SortSamples_KeepOrder(Tail(snapshot))

RECURSIVE SortSamples(_)
\* std::sort(sorted.begin(), sorted.end())
SortSamples(snapshot) ==
    IF snapshot = <<>> THEN <<>>
    ELSE InsertSorted(Head(snapshot), SortSamples(Tail(snapshot)))

(* IEEE 754 double arithmetic, as far as percentile needs it. A natural    *)
(* number of any size is the sequence of its digits to the base 2^10, the  *)
(* lowest first; a double is m * 2^e with m of 53 binary digits.           *)

\* The base of the digits, and the number of binary digits in one of them.
LimbBits == 10
LimbBase == 2 ^ LimbBits
\* Number of binary digits of a double's significand, and of the digits by
\* which a dividend is lengthened: a divisor below 2^18 then leaves a
\* quotient of more than 53 digits.
DoubleDigits == 53
GuardDigits == 20

\* digit i of the number, 0 beyond its ends
Limb(limbs, i) == IF i >= 1 /\ i <= Len(limbs) THEN limbs[i] ELSE 0

RECURSIVE TrimLimbs(_)
\* without its leading zeros
TrimLimbs(limbs) ==
    IF limbs = <<>> \/ limbs[Len(limbs)] # 0 THEN limbs
    ELSE TrimLimbs(SubSeq(limbs, 1, Len(limbs) - 1))

\* the digits of n, for n below 2^31
LimbsOf(n) == TrimLimbs([i \in 1 .. 4 |-> (n \div (LimbBase ^ (i - 1))) % LimbBase])

RECURSIVE IntOf(_)
\* the number the digits stand for, when it is below 2^31
IntOf(limbs) ==
    IF limbs = <<>> THEN 0 ELSE Head(limbs) + LimbBase * IntOf(Tail(limbs))

\* Number of binary digits of the number.
BitLength(limbs) ==
    LET t == TrimLimbs(limbs)
    IN  IF t = <<>> THEN 0
        ELSE LimbBits * (Len(t) - 1)
             + (CHOOSE n \in 1 .. LimbBits :
                    2 ^ (n - 1) <= t[Len(t)] /\ t[Len(t)] < 2 ^ n)

\* binary digit i of the number, the lowest being digit 0
BitAt(limbs, i) == (Limb(limbs, (i \div LimbBits) + 1) \div (2 ^ (i % LimbBits))) % 2

\* the number's d lowest binary digits are all 0
LowBitsZero(limbs, d) ==
    /\ \A i \in 1 .. (d \div LimbBits) : Limb(limbs, i) = 0
    /\ Limb(limbs, (d \div LimbBits) + 1) % (2 ^ (d % LimbBits)) = 0

\* limbs \div 2^d
ShiftRight(limbs, d) ==
    LET a == d \div LimbBits
        b == d % LimbBits
    IN  TrimLimbs([j \in 1 .. (Len(limbs) - a) |->
            (Limb(limbs, j + a) \div (2 ^ b))
            + (Limb(limbs, j + a + 1) % (2 ^ b)) * (2 ^ (LimbBits - b))])

\* limbs * 2^d
ShiftLeft(limbs, d) ==
    LET a == d \div LimbBits
        b == d % LimbBits
    IN  TrimLimbs([j \in 1 .. (Len(limbs) + a + 1) |->
            (Limb(limbs, j - a) % (2 ^ (LimbBits - b))) * (2 ^ b)
            + (Limb(limbs, j - a - 1) \div (2 ^ (LimbBits - b)))])

\* limbs + 1
AddOne(limbs) ==
    LET full  == {i \in 1 .. Len(limbs) : \A j \in 1 .. i : limbs[j] = LimbBase - 1}
        first == Cardinality(full) + 1
    IN  [j \in 1 .. (IF first > Len(limbs) THEN first ELSE Len(limbs)) |->
            IF j < first THEN 0
            ELSE IF j = first THEN Limb(limbs, j) + 1
            ELSE limbs[j]]

RECURSIVE MulLimbs(_, _, _)
\* limbs * k + carry, for k below 2^20
MulLimbs(limbs, k, carry) ==
    IF limbs = <<>> THEN LimbsOf(carry)
    ELSE <<(Head(limbs) * k + carry) % LimbBase>>
         \o MulLimbs(Tail(limbs), k, (Head(limbs) * k + carry) \div LimbBase)

RECURSIVE DivLimbs(_, _, _, _, _)
\* Long division by k, for k below 2^20, of the digits i down to 1, rem being
\* the remainder and q the quotient of the digits above them: the quotient's
\* digits q and the remainder r.
DivLimbs(limbs, i, k, rem, q) ==
    IF i = 0 THEN [q |-> q, r |-> rem]
    ELSE DivLimbs(limbs, i - 1, k, (rem * LimbBase + limbs[i]) % k,
                  <<(rem * LimbBase + limbs[i]) \div k>> \o q)

\* The double nearest to (limbs + f) * 2^e, f a fraction below 1 that is not 0
\* iff inexact; ties go to the even significand.
RoundToDouble(limbs, e, inexact) ==
    LET drop == BitLength(limbs) - DoubleDigits
    IN  IF drop <= 0
        THEN [m |-> ShiftLeft(limbs, -drop), e |-> e + drop]
        ELSE LET kept  == ShiftRight(limbs, drop)
                 half  == BitAt(limbs, drop - 1) = 1
                 below == inexact \/ ~LowBitsZero(limbs, drop - 1)
                 up    == half /\ (below \/ kept[1] % 2 = 1)
                 m     == IF up THEN AddOne(kept) ELSE kept
             IN  IF BitLength(m) > DoubleDigits
                 THEN [m |-> ShiftRight(m, 1), e |-> e + drop + 1]
                 ELSE [m |-> m, e |-> e + drop]

\* static_cast<double>(n) for n below 2^31
DoubleOfInt(n) == RoundToDouble(LimbsOf(n), 0, FALSE)

\* x / k for a double x and a whole double k
DivDouble(x, k) ==
    LET dividend == ShiftLeft(x.m, GuardDigits)
        quotient == DivLimbs(dividend, Len(dividend), k, 0, <<>>)
    IN  RoundToDouble(quotient.q, x.e - GuardDigits, quotient.r # 0)

\* x * k for a double x and a whole double k
MulDouble(x, k) == RoundToDouble(MulLimbs(x.m, k, 0), x.e, FALSE)

\* static_cast<size_t>(std::ceil(x)) for a double x below 2^31
CeilOfDouble(x) ==
    IF x.e >= 0 THEN IntOf(ShiftLeft(x.m, x.e))
    ELSE IntOf(ShiftRight(x.m, -x.e)) + (IF LowBitsZero(x.m, -x.e) THEN 0 ELSE 1)

\* The literals 50.0, 95.0, 99.0, 99.9 and 99.99 that computeStats hands to
\* percentile, each with the hundredths of a percent it stands for.
P50 == [p |-> DoubleOfInt(50), hundredths |-> 5000]
P95 == [p |-> DoubleOfInt(95), hundredths |-> 9500]
P99 == [p |-> DoubleOfInt(99), hundredths |-> 9900]
P999 == [p |-> DivDouble(DoubleOfInt(999), 10), hundredths |-> 9990]
P9999 == [p |-> DivDouble(DoubleOfInt(9999), 100), hundredths |-> 9999]

\* rank = (p / 100.0) * static_cast<double>(sorted.size()) for n elements;
\* idx = ceil(rank), brought into 1 .. n
PercentileIndex(n, p) ==
    LET rank == MulDouble(DivDouble(p, 100), n)
        idx  == CeilOfDouble(rank)
    IN  IF idx = 0 THEN 1
        ELSE IF idx > n THEN n ELSE idx

\* The largest of the small vectors handed to percentile on its own, and the
\* sizes of all of them: the small ones, 1000 elements, and a full sampler.
MaxRampSize == 20
LATENCY_STATS_DEFAULT_CAPACITY == 100000
RampSizes == (1 .. MaxRampSize) \cup {1000, LATENCY_STATS_DEFAULT_CAPACITY}

\* The five percentiles computeStats asks for.
Percentiles == {P50, P95, P99, P999, P9999}

\* idx of percentile for each of the five percentiles and each size a sorted
\* vector has here, worked out once.
PercentileIndexOf ==
    {<<q.hundredths, n, PercentileIndex(n, q.p)>> :
        q \in Percentiles, n \in (1 .. StatsCapacity) \cup RampSizes}

\* percentile(sorted, p) for p one of the five percentiles: sorted[idx - 1] / 1000.0
percentile(sorted, q) ==
    IF sorted = <<>> THEN NsToUs(0)
    ELSE NsToUs(sorted[(CHOOSE t \in PercentileIndexOf :
                            t[1] = q.hundredths /\ t[2] = Len(sorted))[3]])

\* The Result computeStats returns for totalCount and the sorted snapshot.
ResultOf(totalCount, sorted) ==
    [count    |-> totalCount,
     min_us   |-> NsToUs(sorted[1]),
     max_us   |-> NsToUs(sorted[Len(sorted)]),
     p50_us   |-> percentile(sorted, P50),
     p95_us   |-> percentile(sorted, P95),
     p99_us   |-> percentile(sorted, P99),
     p999_us  |-> percentile(sorted, P999),
     p9999_us |-> percentile(sorted, P9999)]

\* The latencies handed to recordSample, in nanoseconds.
SampleValues == {999, 1500, 2500}

recSide == <<rec_pc, rec_latency_ns, rec_idx, rec_calls, ls_recorded>>
csSide == <<cs_pc, cs_totalCount, cs_writePos, cs_sorted, cs_result, cs_calls, cs_seen,
            cs_visible>>
\* The variables no LatencyStats step touches.
notLs == <<ringVars, pktVars, monVars, pctVars, tmVars, mainVars, progVars>>

\* recordSample(latency_ns) is called: idx = m_writeIdx.load(relaxed)
RecCall(latency_ns) ==
    /\ rec_pc = "idle"
    /\ rec_calls < MaxRecordCalls
    /\ rec_calls' = rec_calls + 1
    /\ rec_latency_ns' = latency_ns
    /\ rec_idx' = ls_writeIdx
    /\ rec_pc' = "write"
    /\ cs_quiet' = (cs_quiet /\ cs_pc = "idle")
    /\ UNCHANGED <<ls_samples, ls_writeIdx, ls_count, ls_recorded, csSide, notLs>>

\* m_samples[idx] = latency_ns
RecWriteSample ==
    /\ rec_pc = "write"
    /\ ls_samples' = [ls_samples EXCEPT ![rec_idx] = rec_latency_ns]
    /\ rec_pc' = "store"
    /\ UNCHANGED <<ls_writeIdx, ls_count, rec_latency_ns, rec_idx, rec_calls,
                   ls_recorded, csSide, cs_quiet, notLs>>

\* m_writeIdx.store((idx + 1U) % Capacity, release)
RecStoreIdx ==
    /\ rec_pc = "store"
    /\ ls_writeIdx' = NextWriteIdx(rec_idx)
    /\ rec_pc' = "count"
    /\ UNCHANGED <<ls_samples, ls_count, rec_latency_ns, rec_idx, rec_calls,
                   ls_recorded, csSide, cs_quiet, notLs>>

\* m_count.fetch_add(1U, relaxed), and recordSample returns
RecAddCount ==
    /\ rec_pc = "count"
    /\ ls_count' = ls_count + 1
    /\ ls_recorded' = Append(ls_recorded, rec_latency_ns)
    /\ rec_pc' = "idle"
    /\ UNCHANGED <<ls_samples, ls_writeIdx, rec_latency_ns, rec_idx, rec_calls,
                   csSide, cs_quiet, notLs>>

\* computeStats() is called: totalCount = m_count.load(acquire); it returns the
\* zero Result when totalCount is 0.
CsCall ==
    /\ cs_pc = "idle"
    /\ cs_calls < MaxComputeCalls
    /\ cs_calls' = cs_calls + 1
    /\ cs_totalCount' = ls_count
    /\ cs_seen' = ls_recorded
    /\ cs_quiet' = (rec_pc = "idle")
    /\ cs_sorted' = <<>>
    /\ cs_writePos' = 0
    /\ IF ls_count = 0
       THEN cs_result' = ZeroResult /\ cs_pc' = "idle"
       ELSE /\ cs_pc' = IF ls_count <= StatsCapacity THEN "copy" ELSE "writePos"
            /\ UNCHANGED cs_result
    /\ UNCHANGED <<ls_samples, ls_writeIdx, ls_count, recSide, cs_visible, notLs>>

\* The number of recordSample calls that have made their release store of
\* m_writeIdx.
StoresMade == Len(ls_recorded) + (IF rec_pc = "count" THEN 1 ELSE 0)

\* writePos = m_writeIdx.load(acquire)
CsLoadWritePos ==
    /\ cs_pc = "writePos"
    /\ cs_writePos' = ls_writeIdx
    /\ cs_visible' = StoresMade
    /\ cs_pc' = "copy"
    /\ UNCHANGED <<ls_samples, ls_writeIdx, ls_count, recSide, cs_totalCount,
                   cs_sorted, cs_result, cs_calls, cs_seen, cs_quiet, notLs>>

\* std::copy copies one more element of m_samples into sorted.
CsCopyElement ==
    /\ cs_pc = "copy"
    /\ cs_sorted' = Append(cs_sorted,
                           ls_samples[CopySource(cs_totalCount, cs_writePos, Len(cs_sorted))])
    /\ cs_pc' = IF Len(cs_sorted) + 1 = NumSamples(cs_totalCount) THEN "sort" ELSE "copy"
    /\ UNCHANGED <<ls_samples, ls_writeIdx, ls_count, recSide, cs_totalCount,
                   cs_writePos, cs_result, cs_calls, cs_seen, cs_quiet, cs_visible,
                   notLs>>

\* std::sort, the statistics and the percentiles; computeStats returns.
CsSortAndReturn ==
    /\ cs_pc = "sort"
    /\ \E sorted \in {SortSamples(cs_sorted)} :
        /\ cs_sorted' = sorted
        /\ cs_result' = ResultOf(cs_totalCount, sorted)
    /\ cs_pc' = "idle"
    /\ UNCHANGED <<ls_samples, ls_writeIdx, ls_count, recSide, cs_totalCount,
                   cs_writePos, cs_calls, cs_seen, cs_quiet, cs_visible, notLs>>

NextSampler ==
    \/ \E latency_ns \in SampleValues : RecCall(latency_ns)
    \/ RecWriteSample
    \/ RecStoreIdx
    \/ RecAddCount
    \/ CsCall
    \/ CsLoadWritePos
    \/ CsCopyElement
    \/ CsSortAndReturn

\* The last n of the recorded samples, in the order they were recorded.
LastSamples(recorded, n) == SubSeq(recorded, Len(recorded) - n + 1, Len(recorded))
\* The samples of a sequence as a multiset.
BagOfSamples(samples) ==
    [v \in {samples[i] : i \in DOMAIN samples} |->
        Cardinality({i \in DOMAIN samples : samples[i] = v})]
\* min(T, C) for the T samples recorded when the last computeStats was called
ValidSamples ==
    IF Len(cs_seen) <= StatsCapacity THEN Len(cs_seen) ELSE StatsCapacity
\* The last computeStats has returned and no recordSample was in progress
\* during it.
QuietSnapshotTaken == cs_pc = "idle" /\ cs_calls > 0 /\ cs_quiet

\* C19: when no recordSample is in progress and T samples have been recorded
\* into a sampler of capacity C, the snapshot taken by computeStats consists of
\* exactly the last min(T, C) recorded samples (copied in the order they were
\* recorded, from cell 0 if T <= C and from write_idx round otherwise), and the
\* result is all zero when T = 0.
C19_SnapshotIsLastSamples ==
    /\ (cs_pc = "sort" /\ cs_quiet) =>
           cs_sorted = LastSamples(cs_seen, ValidSamples)
    /\ QuietSnapshotTaken =>
           /\ cs_totalCount = Len(cs_seen)
           /\ BagOfSamples(cs_sorted) = BagOfSamples(LastSamples(cs_seen, ValidSamples))
           /\ cs_result.count = Len(cs_seen)
           /\ (Len(cs_seen) = 0) => (cs_result = ZeroResult)

\* Two samples more than the capacity were recorded, and the snapshot taken
\* afterwards holds other samples than the first C.
C19_Witness ==
    /\ QuietSnapshotTaken
    /\ Len(cs_seen) = StatsCapacity + 2
    /\ cs_result.count = StatsCapacity + 2
    /\ Len(cs_sorted) = StatsCapacity
    /\ BagOfSamples(cs_sorted) # BagOfSamples(SubSeq(cs_seen, 1, StatsCapacity))

\* C20: for every non-empty set of recorded samples, the result of
\* computeStats satisfies min <= p50 <= p95 <= p99 <= p99.9 <= p99.99 <= max.
C20_PercentilesAreOrdered ==
    (cs_pc = "idle" /\ cs_calls > 0 /\ cs_result.count > 0) =>
        /\ LeqUs(cs_result.min_us, cs_result.p50_us)
        /\ LeqUs(cs_result.p50_us, cs_result.p95_us)
        /\ LeqUs(cs_result.p95_us, cs_result.p99_us)
        /\ LeqUs(cs_result.p99_us, cs_result.p999_us)
        /\ LeqUs(cs_result.p999_us, cs_result.p9999_us)
        /\ LeqUs(cs_result.p9999_us, cs_result.max_us)

\* Three samples were recorded in falling order, and the result has a median
\* strictly between its minimum and its maximum.
C20_Witness ==
    /\ cs_pc = "idle"
    /\ cs_calls > 0
    /\ cs_result.count = 3
    /\ cs_seen = <<2500, 1500, 999>>
    /\ cs_result.min_us = NsToUs(999)
    /\ cs_result.p50_us = NsToUs(1500)
    /\ cs_result.p95_us = NsToUs(2500)
    /\ cs_result.max_us = NsToUs(2500)

(***************************************************************************)
(* The sampler when the reading thread's reads of m_samples are not        *)
(* ordered after the recording thread's writes. m_samples is a plain       *)
(* array: a read of a cell by computeStats is ordered after a write by     *)
(* recordSample only when the release store of m_writeIdx that follows the *)
(* write was read by an acquire load of the reading thread. m_count is     *)
(* added to with relaxed order, so its acquire load orders nothing. A read *)
(* that is not so ordered is a data race; it returns what the cell held    *)
(* before the write or what the write put there.                           *)
(***************************************************************************)

\* The k-th recordSample call records k microseconds.
RaceSample(k) == k * 1000

\* The arguments of the recordSample calls that have written their cell.
WrittenSamples ==
    ls_recorded \o (IF rec_pc \in {"store", "count"} THEN <<rec_latency_ns>> ELSE <<>>)

\* The writes a read of the cell can return: the last write ordered before the
\* read and every later one, 0 standing for m_samples.fill(0U).
ReadableWrites(cell) ==
    LET writes  == {k \in 1 .. Len(WrittenSamples) : (k - 1) % StatsCapacity = cell}
        ordered == {k \in writes : k <= cs_visible}
    IN  IF ordered = {} THEN writes \cup {0}
        ELSE {k \in writes : \A o \in ordered : k >= o}

\* std::copy copies one more element of m_samples into sorted.
CsCopyRacing ==
    /\ cs_pc = "copy"
    /\ \E k \in ReadableWrites(CopySource(cs_totalCount, cs_writePos, Len(cs_sorted))) :
           cs_sorted' = Append(cs_sorted, IF k = 0 THEN 0 ELSE WrittenSamples[k])
    /\ cs_pc' = IF Len(cs_sorted) + 1 = NumSamples(cs_totalCount) THEN "sort" ELSE "copy"
    /\ UNCHANGED <<ls_samples, ls_writeIdx, ls_count, recSide, cs_totalCount,
                   cs_writePos, cs_result, cs_calls, cs_seen, cs_quiet, cs_visible,
                   notLs>>

NextSamplerRace ==
    \/ \E latency_ns \in {RaceSample(rec_calls + 1)} : RecCall(latency_ns)
    \/ RecWriteSample
    \/ RecStoreIdx
    \/ RecAddCount
    \/ CsCall
    \/ CsLoadWritePos
    \/ CsCopyRacing
    \/ CsSortAndReturn

\* C22: with one thread calling recordSample while another runs computeStats,
\* every element of the snapshot is a value that was passed to some
\* recordSample call, never a cell's initial content, and each recorded sample
\* gives at most one element of the snapshot.
C22_SnapshotHoldsRecordedSamplesOnce ==
    (cs_pc = "sort") =>
        /\ \A i \in DOMAIN cs_sorted :
               \E k \in 1 .. rec_calls : cs_sorted[i] = RaceSample(k)
        /\ \A i, j \in DOMAIN cs_sorted : (i # j) => (cs_sorted[i] # cs_sorted[j])

(***************************************************************************)
(* UdpThreadManager: the main thread calling start, queueTxPacket and      *)
(* stop, the RX worker and the TX worker. m_rxQueue and m_txQueue are the  *)
(* ring buffer above, taken here as queues of whole frames.                *)
(***************************************************************************)

\* The most queueTxPacket calls, receive calls returning a frame, start calls
\* and stop calls of a behaviour.
MaxQueueCalls == 3
MaxRxPackets == 2
MaxStartCalls == 1
MaxStopCalls == 2

\* The frames handed to queueTxPacket: an empty one, one of one byte, and one
\* of two bytes.
TmFrames == {<<>>, <<1>>, <<2, 2>>}
\* What errno holds after a receive that returned -1.
RxErrnos == {"EAGAIN", "EWOULDBLOCK", "EINTR", "ECONNREFUSED", "EBADF"}

notTm == <<ringVars, pktVars, monVars, lsVars, pctVars, mainVars, progVars>>

\* Mutant: a ring is full only with a frame in every slot.
QueueFull_EverySlot(frames) == frames = Capacity

\* A ring of Capacity slots is full with Capacity - 1 frames
QueueFull(frames) == frames = Capacity - 1

\* Mutant: ECONNREFUSED ends the RX worker.
isTransientError_NoConnRefused(err) == err \in {"EAGAIN", "EWOULDBLOCK", "EINTR"}

\* isTransientError = (errno == EAGAIN) || (errno == EWOULDBLOCK) ||
\*                    (errno == EINTR) || (errno == ECONNREFUSED)
isTransientError(err) == err \in {"EAGAIN", "EWOULDBLOCK", "EINTR", "ECONNREFUSED"}

\* Mutant: the RX worker does not look at m_running.
LoopContinues_IgnoreRunning(running, shouldExit) == shouldExit = FALSE

\* while ((m_running.load(acquire) == true) && (shouldExit == false))
LoopContinues(running, shouldExit) == running = TRUE /\ shouldExit = FALSE

\* Mutant: the interval is recorded for the first packet too.
RecordsInterval_Always(firstRxPacket) == TRUE

\* if (m_firstRxPacket == false) m_rxIntervalStats.recordSample(...)
RecordsInterval(firstRxPacket) == firstRxPacket = FALSE

\* Mutant: a send that returns 0 counts as sent.
SendSucceeded_ZeroToo(sentLen) == sentLen >= 0

\* if (sentLen > 0)
SendSucceeded(sentLen) == sentLen > 0

\* The main thread is in neither start nor stop.
MainThreadFree == start_pc = "idle" /\ stop_pc = "idle"

\* setRxCallback(callback), as main calls it before start
TmSetRxCallback ==
    /\ MainThreadFree
    /\ tm_starts = 0
    /\ tm_rxCallback = FALSE
    /\ tm_rxCallback' = TRUE
    /\ UNCHANGED <<tmMain, tmRx, tmTx, tmQueue, notTm>>

\* queueTxPacket(data, length) on the manager; oversize tells whether the frame
\* is longer than a packet of the ring.
TmQueueTxEffect(frame, oversize) ==
    /\ tm_queueCalls' = tm_queueCalls + 1
    /\ IF oversize \/ QueueFull(Len(tm_txQueue))
       THEN /\ tm_txDropCount' = tm_txDropCount + 1
            /\ tm_rejected' = tm_rejected + 1
            /\ UNCHANGED <<tm_txQueue, tm_queued>>
       ELSE /\ tm_txQueue' = Append(tm_txQueue, frame)
            /\ tm_queued' = Append(tm_queued, frame)
            /\ UNCHANGED <<tm_txDropCount, tm_rejected>>
    /\ UNCHANGED <<tmMain, tmRx, tmTx, tm_rxCallback>>

\* queueTxPacket(data, length)
TmQueueTxPacket(frame) ==
    /\ MainThreadFree
    /\ tm_queueCalls < MaxQueueCalls
    /\ TmQueueTxEffect(frame, Oversize(Len(frame)))
    /\ UNCHANGED notTm

\* Mutant: start does not look at m_running.
AlreadyRunning_Never(running) == FALSE

\* if (m_running.load(acquire) == true), in start
AlreadyRunning(running) == running = TRUE

\* Mutant: stop does not look at m_running.
NotRunning_Never(running) == FALSE

\* if (m_running.load(acquire) == false) return; in stop
NotRunning(running) == running = FALSE

\* What a pthread_t holds after a pthread_create that failed: its contents are
\* undefined, so it is left as it was or holds a handle of no thread.
InvalidThread == 0 - 1
HandleAfterFailedCreate(handle) == {handle, InvalidThread}

\* The node and the configuration handed to start: main's, and another pair.
MainStartArgs == [node |-> 1, config |-> 1]
StartArgs == {MainStartArgs, [node |-> 2, config |-> 2]}

\* start(udpNode, config) up to the creation of the RX thread; buffersOk is what
\* configureSocketBuffers returns.
TmStart(buffersOk, args) ==
    /\ MainThreadFree
    /\ tm_starts' = tm_starts + 1
    /\ IF AlreadyRunning(tm_running)
       THEN /\ start_ret' = "false"
            /\ UNCHANGED <<tm_running, tm_error, start_pc, tmArgs>>
       ELSE /\ tm_udpNode' = args.node
            /\ tm_config' = args.config
            /\ IF buffersOk
               THEN /\ tm_error' = "None"
                    /\ tm_running' = TRUE
                    /\ start_pc' = "createRx"
                    /\ UNCHANGED start_ret
               ELSE /\ tm_error' = "SetSocketBufferFail"
                    /\ start_ret' = "false"
                    /\ UNCHANGED <<tm_running, start_pc>>
    /\ UNCHANGED <<tm_rxThread, tm_txThread, stop_pc, tm_stops, tmThreads, tmRx, tmTx,
                   tmQueue, tm_rxCallback, notTm>>

\* A start in a behaviour of at most limit calls of start.
TmStartUpTo(limit, buffersOk, args) ==
    /\ tm_starts < limit
    /\ TmStart(buffersOk, args)

\* pthread_create(&m_rxThread, nullptr, rxThreadEntry, this)
TmStartCreateRx(created) ==
    /\ start_pc = "createRx"
    /\ IF created
       THEN /\ rxw_created' = rxw_created + 1
            /\ tm_rxThread' = rxw_created + 1
            /\ rxw_pc' = "receive"
            /\ rxw_shouldExit' = FALSE
            /\ start_pc' = "createTx"
            /\ UNCHANGED <<tm_running, tm_error, start_ret>>
       ELSE /\ tm_rxThread' \in HandleAfterFailedCreate(tm_rxThread)
            /\ tm_error' = "ThreadCreateFail"
            /\ tm_running' = FALSE
            /\ start_pc' = "idle"
            /\ start_ret' = "false"
            /\ UNCHANGED <<rxw_created, rxw_pc, rxw_shouldExit>>
    /\ UNCHANGED <<tm_txThread, stop_pc, tm_starts, tm_stops, tmArgs, rxw_joined,
                   txw_created, txw_joined, rxw_recvLen, rxw_errno,
                   tm_rxPacketCount, tm_rxDropCount, tm_firstRxPacket, tm_rxQueue,
                   tm_rxLatencyStats, tm_rxIntervalStats, rxw_received, rxw_callbacks,
                   tmTx, tmQueue, tm_rxCallback, notTm>>

\* pthread_create(&m_txThread, nullptr, txThreadEntry, this); with both threads
\* made start configures them and returns true
TmStartCreateTx(created) ==
    /\ start_pc = "createTx"
    /\ IF created
       THEN /\ txw_created' = txw_created + 1
            /\ tm_txThread' = txw_created + 1
            /\ txw_pc' = "pop"
            /\ start_pc' = "idle"
            /\ start_ret' = "true"
            /\ UNCHANGED <<tm_running, tm_error>>
       ELSE /\ tm_txThread' \in HandleAfterFailedCreate(tm_txThread)
            /\ tm_error' = "ThreadCreateFail"
            /\ tm_running' = FALSE
            /\ start_pc' = "joinRx"
            /\ UNCHANGED <<txw_created, txw_pc, start_ret>>
    /\ UNCHANGED <<tm_rxThread, stop_pc, tm_starts, tm_stops, tmArgs, rxw_created,
                   rxw_joined, txw_joined, tmRx, txw_txBuffer,
                   txw_sentLen, tm_txPacketCount, tm_txLatencyStats, tm_sent,
                   tm_sendResults, tmQueue, tm_rxCallback, notTm>>

\* pthread_join(m_rxThread, nullptr) of a start that could not create the TX
\* thread; start returns false
TmStartJoinRx ==
    /\ start_pc = "joinRx"
    /\ rxw_pc = "exited"
    /\ rxw_joined' = Append(rxw_joined, tm_rxThread)
    /\ start_pc' = "idle"
    /\ start_ret' = "false"
    /\ UNCHANGED <<tm_running, tm_rxThread, tm_txThread, tm_error, stop_pc, tm_starts,
                   tm_stops, tmArgs, rxw_created, txw_created, txw_joined, tmRx, tmTx,
                   tmQueue, tm_rxCallback, notTm>>

\* stop() up to its first join
TmStop ==
    /\ MainThreadFree
    /\ tm_stops < MaxStopCalls
    /\ tm_stops' = tm_stops + 1
    /\ IF NotRunning(tm_running)
       THEN UNCHANGED <<tm_running, stop_pc>>
       ELSE /\ tm_running' = FALSE
            /\ stop_pc' = "joinRx"
    /\ UNCHANGED <<tm_rxThread, tm_txThread, tm_error, start_pc, tm_starts, tmArgs,
                   start_ret, tmThreads, tmRx, tmTx, tmQueue, tm_rxCallback, notTm>>

\* if (m_rxThread != 0) { pthread_join(m_rxThread, nullptr); m_rxThread = 0; }
TmStopJoinRx ==
    /\ stop_pc = "joinRx"
    /\ (tm_rxThread # 0) => (rxw_pc = "exited")
    /\ rxw_joined' = IF tm_rxThread # 0 THEN Append(rxw_joined, tm_rxThread)
                     ELSE rxw_joined
    /\ tm_rxThread' = 0
    /\ stop_pc' = "joinTx"
    /\ UNCHANGED <<tm_running, tm_txThread, tm_error, start_pc, tm_starts, tm_stops,
                   tmArgs, start_ret, rxw_created, txw_created, txw_joined, tmRx,
                   tmTx, tmQueue, tm_rxCallback, notTm>>

\* if (m_txThread != 0) { pthread_join(m_txThread, nullptr); m_txThread = 0; }
\* and stop prints the counts and the statistics and returns
TmStopJoinTx ==
    /\ stop_pc = "joinTx"
    /\ (tm_txThread # 0) => (txw_pc = "exited")
    /\ txw_joined' = IF tm_txThread # 0 THEN Append(txw_joined, tm_txThread)
                     ELSE txw_joined
    /\ tm_txThread' = 0
    /\ stop_pc' = "idle"
    /\ UNCHANGED <<tm_running, tm_rxThread, tm_error, start_pc, tm_starts, tm_stops,
                   tmArgs, start_ret, rxw_created, rxw_joined, txw_created, tmRx,
                   tmTx, tmQueue, tm_rxCallback, notTm>>

\* One pass of the body of rxThreadLoop, but for what the RX callback does:
\* receive returns recvLen, with errno err when it is negative.
RxReceivePass(recvLen, err) ==
    /\ rxw_pc = "receive"
    /\ rxw_recvLen' = recvLen
    /\ rxw_pc' = "check"
    /\ IF recvLen > 0
       THEN /\ tm_rxPacketCount' = tm_rxPacketCount + 1
            /\ rxw_received' = rxw_received + 1
            /\ tm_rxIntervalStats' = IF RecordsInterval(tm_firstRxPacket)
                                     THEN tm_rxIntervalStats + 1
                                     ELSE tm_rxIntervalStats
            /\ tm_firstRxPacket' = FALSE
            /\ IF QueueFull(Len(tm_rxQueue))
               THEN tm_rxDropCount' = tm_rxDropCount + 1 /\ UNCHANGED tm_rxQueue
               ELSE /\ tm_rxQueue' = Append(tm_rxQueue, <<rxw_received + 1>>)
                    /\ UNCHANGED tm_rxDropCount
            /\ rxw_callbacks' = IF tm_rxCallback THEN rxw_callbacks + 1 ELSE rxw_callbacks
            /\ tm_rxLatencyStats' = tm_rxLatencyStats + 1
            /\ UNCHANGED <<rxw_errno, rxw_shouldExit>>
       ELSE /\ IF recvLen < 0
               THEN /\ rxw_errno' = err
                    /\ rxw_shouldExit' = IF isTransientError(err) THEN rxw_shouldExit
                                         ELSE TRUE
               ELSE UNCHANGED <<rxw_errno, rxw_shouldExit>>
            /\ UNCHANGED <<tm_rxPacketCount, rxw_received, tm_rxIntervalStats,
                           tm_firstRxPacket, tm_rxQueue, tm_rxDropCount, rxw_callbacks,
                           tm_rxLatencyStats>>
    /\ UNCHANGED <<tmMain, tmTx, tmQueue, tm_rxCallback>>

\* One pass of the body of rxThreadLoop with a callback that touches nothing
\* but the manager.
RxReceive(recvLen, err) ==
    /\ RxReceivePass(recvLen, err)
    /\ UNCHANGED notTm

\* A pass of the RX loop body in a behaviour where receive returns at most
\* limit frames.
RxReceiveUpTo(limit, recvLen, err) ==
    /\ (recvLen > 0) => (rxw_received < limit)
    /\ RxReceive(recvLen, err)

\* while ((m_running.load(acquire) == true) && (shouldExit == false));
RxLoopCheck ==
    /\ rxw_pc = "check"
    /\ rxw_pc' = IF LoopContinues(tm_running, rxw_shouldExit) THEN "receive" ELSE "exited"
    /\ UNCHANGED <<rxw_recvLen, rxw_errno, rxw_shouldExit, tm_rxPacketCount,
                   tm_rxDropCount, tm_firstRxPacket, tm_rxQueue, tm_rxLatencyStats,
                   tm_rxIntervalStats, rxw_received, rxw_callbacks, tmMain, tmTx, tmQueue,
                   tm_rxCallback, notTm>>

\* m_txQueue.pop(txBuffer, sizeof(txBuffer), txLength), and usleep(10) when the
\* queue is empty
TxPop ==
    /\ txw_pc = "pop"
    /\ IF tm_txQueue # <<>>
       THEN /\ txw_txBuffer' = Head(tm_txQueue)
            /\ tm_txQueue' = Tail(tm_txQueue)
            /\ txw_pc' = "send"
       ELSE /\ txw_pc' = "check"
            /\ UNCHANGED <<txw_txBuffer, tm_txQueue>>
    /\ UNCHANGED <<txw_sentLen, tm_txPacketCount, tm_txLatencyStats, tm_sent,
                   tm_sendResults, tm_txDropCount, tm_queued, tm_rejected, tm_queueCalls,
                   tmMain, tmRx, tm_rxCallback, notTm>>

\* sentLen = m_udpNode->send(txBuffer, txLength): the whole frame is sent, or
\* send fails with -1
TxSend(sent) ==
    /\ txw_pc = "send"
    /\ txw_sentLen' = IF sent THEN Len(txw_txBuffer) ELSE -1
    /\ tm_sent' = Append(tm_sent, txw_txBuffer)
    /\ tm_sendResults' = Append(tm_sendResults, IF sent THEN Len(txw_txBuffer) ELSE -1)
    /\ txw_pc' = "account"
    /\ UNCHANGED <<txw_txBuffer, tm_txPacketCount, tm_txLatencyStats, tmQueue, tmMain,
                   tmRx, tm_rxCallback, notTm>>

\* the counting after send
TxAccount ==
    /\ txw_pc = "account"
    /\ IF SendSucceeded(txw_sentLen)
       THEN /\ tm_txPacketCount' = tm_txPacketCount + 1
            /\ tm_txLatencyStats' = tm_txLatencyStats + 1
            /\ UNCHANGED tm_txDropCount
       ELSE /\ tm_txDropCount' = tm_txDropCount + 1
            /\ UNCHANGED <<tm_txPacketCount, tm_txLatencyStats>>
    /\ txw_pc' = "check"
    /\ UNCHANGED <<txw_txBuffer, txw_sentLen, tm_sent, tm_sendResults, tm_txQueue,
                   tm_queued, tm_rejected, tm_queueCalls, tmMain, tmRx, tm_rxCallback,
                   notTm>>

\* while (m_running.load(acquire) == true);
TxLoopCheck ==
    /\ txw_pc = "check"
    /\ txw_pc' = IF tm_running THEN "pop" ELSE "exited"
    /\ UNCHANGED <<txw_txBuffer, txw_sentLen, tm_txPacketCount, tm_txLatencyStats, tm_sent,
                   tm_sendResults, tmQueue, tmMain, tmRx, tm_rxCallback, notTm>>

\* The steps of the RX worker, of the TX worker, and of a stop that has begun.
RxWorker ==
    \/ \E recvLen \in {-1, 0, 1}, err \in RxErrnos :
           RxReceiveUpTo(MaxRxPackets, recvLen, err)
    \/ RxLoopCheck
TxWorker ==
    \/ TxPop
    \/ \E sent \in BOOLEAN : TxSend(sent)
    \/ TxAccount
    \/ TxLoopCheck
StopJoins == TmStopJoinRx \/ TmStopJoinTx

\* The calls of the main thread on the manager's threads.
StartAndStop ==
    \/ \E buffersOk \in BOOLEAN, args \in {MainStartArgs} :
           TmStartUpTo(MaxStartCalls, buffersOk, args)
    \/ \E created \in BOOLEAN : TmStartCreateRx(created)
    \/ \E created \in BOOLEAN : TmStartCreateTx(created)
    \/ TmStartJoinRx
    \/ TmStop
    \/ TmStopJoinRx
    \/ TmStopJoinTx

\* The manager with every outcome of receive, and one frame to send.
NextManagerRx ==
    \/ TmSetRxCallback
    \/ \E frame \in {<<1>>} : tm_queueCalls = 0 /\ TmQueueTxPacket(frame)
    \/ StartAndStop
    \/ RxWorker
    \/ TxWorker

\* The RX worker with a receive that times out, fails for good, returns nothing
\* or returns a frame.
RxWorkerLive ==
    \/ \E recvLen \in {-1, 0, 1}, err \in {"EAGAIN", "EBADF"} :
           RxReceiveUpTo(MaxRxPackets, recvLen, err)
    \/ RxLoopCheck

\* The manager with these outcomes of receive, and one frame to send.
NextManagerLive ==
    \/ TmSetRxCallback
    \/ \E frame \in {<<1>>} : tm_queueCalls = 0 /\ TmQueueTxPacket(frame)
    \/ StartAndStop
    \/ RxWorkerLive
    \/ TxWorker

\* The manager with every frame to send, and a receive that times out.
NextManagerTx ==
    \/ \E frame \in TmFrames : TmQueueTxPacket(frame)
    \/ StartAndStop
    \/ \E recvLen \in {-1}, err \in {"EAGAIN"} : RxReceive(recvLen, err)
    \/ RxLoopCheck
    \/ TxWorker

\* stop has returned after joining both workers.
StopHasJoined ==
    /\ stop_pc = "idle"
    /\ tm_running = FALSE
    /\ rxw_pc = "exited"
    /\ txw_pc = "exited"
    /\ tm_rxThread = 0
    /\ tm_txThread = 0

\* C23: once stop has cleared m_running of a running manager, and as long as
\* every receive and every send returns, both workers leave their loops and
\* stop joins them and returns, whether or not frames are left in the TX ring.
C23_StopTerminates == (stop_pc = "joinRx") ~> StopHasJoined

\* stop has returned while a frame that was queued is still in the TX ring.
C23_Witness ==
    /\ StopHasJoined
    /\ tm_stops > 0
    /\ tm_txQueue # <<>>
    /\ tm_sent = <<>>

\* The counts the RX worker keeps for the frames it received.
RxAccounts ==
    <<tm_rxPacketCount, rxw_callbacks, tm_rxLatencyStats, tm_rxIntervalStats,
      tm_firstRxPacket, tm_rxQueue, tm_rxDropCount>>
\* A pass of the RX loop body ends.
RxPassEnds == rxw_pc = "receive" /\ rxw_pc' = "check"

\* C28: at every boundary between passes of the RX loop, with n the number of
\* receive calls that returned a positive length, m_rxPacketCount is n, the RX
\* callback was called n times if it is set, n samples were recorded into the
\* RX-processing sampler and max(0, n - 1) into the RX-interval sampler; a
\* receive that returns 0 or a negative length changes none of them.
C28_RxAccounting ==
    /\ [](/\ tm_rxPacketCount = rxw_received
          /\ rxw_callbacks = (IF tm_rxCallback THEN rxw_received ELSE 0)
          /\ tm_rxLatencyStats = rxw_received
          /\ tm_rxIntervalStats = (IF rxw_received = 0 THEN 0 ELSE rxw_received - 1))
    /\ [][(RxPassEnds /\ rxw_recvLen' <= 0) =>
              (UNCHANGED RxAccounts /\ rxw_received' = rxw_received)]_vars
    /\ [][(RxPassEnds /\ rxw_recvLen' > 0) => (rxw_received' = rxw_received + 1)]_vars

\* Two frames were received and handed to the callback, and the receive after
\* them timed out.
C28_Witness ==
    /\ rxw_pc = "check"
    /\ rxw_recvLen = -1
    /\ rxw_received = 2
    /\ tm_rxPacketCount = 2
    /\ rxw_callbacks = 2
    /\ tm_rxLatencyStats = 2
    /\ tm_rxIntervalStats = 1

\* The RX worker has left its loop on a fatal receive error while the manager
\* is running.
RxEndedFatally ==
    /\ rxw_pc = "exited"
    /\ rxw_shouldExit
    /\ tm_running
    /\ MainThreadFree

\* C29: after a receive that returned a negative length the RX worker goes on
\* with its loop if errno is EAGAIN, EWOULDBLOCK, EINTR or ECONNREFUSED, and
\* leaves the loop for any other errno. Such an exit ends the RX worker alone:
\* m_running stays true and the TX worker goes on with its loop, which it
\* leaves only after m_running is false.
C29_FatalReceiveEndsRxOnly ==
    /\ [][(RxPassEnds /\ rxw_recvLen' < 0) =>
              /\ rxw_shouldExit' =
                     (rxw_errno' \notin {"EAGAIN", "EWOULDBLOCK", "EINTR", "ECONNREFUSED"})
              /\ tm_running' = tm_running]_vars
    /\ [][(rxw_pc = "check" /\ rxw_pc' # "check") =>
              /\ (rxw_pc' = "exited") = (rxw_shouldExit \/ ~tm_running)
              /\ (rxw_pc' = "receive") = (~rxw_shouldExit /\ tm_running)
              /\ tm_running' = tm_running]_vars
    /\ [](RxEndedFatally => txw_pc \in {"pop", "send", "account", "check"})
    /\ [][(txw_pc # "exited" /\ txw_pc' = "exited") => ~tm_running]_vars

\* The RX worker has ended on EBADF, stop was not called, and the TX worker
\* has popped a frame and is about to send it.
C29_Witness ==
    /\ RxEndedFatally
    /\ rxw_errno = "EBADF"
    /\ rxw_recvLen = -1
    /\ tm_stops = 0
    /\ txw_pc = "send"
    /\ txw_txBuffer = <<1>>

\* The number of the first n sends that returned a positive length.
RECURSIVE SendsOk(_)
SendsOk(n) ==
    IF n = 0 THEN 0
    ELSE SendsOk(n - 1) + (IF tm_sendResults[n] > 0 THEN 1 ELSE 0)

\* The number of sends whose result the TX worker has counted.
SendsCounted == Len(tm_sent) - (IF txw_pc = "account" THEN 1 ELSE 0)

\* C30: the frames the TX worker hands to send are, in order and byte for
\* byte, the first of the frames for which queueTxPacket returned true; every
\* frame popped is handed to send once, and then either m_txPacketCount grows
\* by one and one sample goes to the TX-send sampler, if send returned a
\* positive length, or m_txDropCount grows by one.
C30_TxOrderAndAccounting ==
    /\ [](/\ tm_queued = tm_sent
                         \o (IF txw_pc = "send" THEN <<txw_txBuffer>> ELSE <<>>)
                         \o tm_txQueue
          /\ Len(tm_sendResults) = Len(tm_sent)
          /\ tm_txPacketCount = SendsOk(SendsCounted)
          /\ tm_txLatencyStats = SendsOk(SendsCounted)
          /\ tm_txDropCount = tm_rejected + (SendsCounted - SendsOk(SendsCounted)))
    /\ [][(tm_sent' # tm_sent) =>
              (txw_pc = "send" /\ tm_sent' = Append(tm_sent, txw_txBuffer))]_vars
    /\ [][(txw_pc = "account" /\ txw_pc' # "account") =>
              IF tm_sendResults[Len(tm_sendResults)] > 0
              THEN /\ tm_txPacketCount' = tm_txPacketCount + 1
                   /\ tm_txLatencyStats' = tm_txLatencyStats + 1
                   /\ tm_txDropCount' = tm_txDropCount
              ELSE /\ tm_txDropCount' = tm_txDropCount + 1
                   /\ tm_txPacketCount' = tm_txPacketCount
                   /\ tm_txLatencyStats' = tm_txLatencyStats]_vars

\* Three frames were queued, the third was refused; the first was sent, the
\* send of the second, which is empty, returned 0 and was counted as a drop.
C30_Witness ==
    /\ txw_pc = "check"
    /\ tm_queued = <<<<1>>, <<>>>>
    /\ tm_rejected = 1
    /\ tm_sent = <<<<1>>, <<>>>>
    /\ tm_sendResults = <<1, 0>>
    /\ tm_txPacketCount = 1
    /\ tm_txLatencyStats = 1
    /\ tm_txDropCount = 2

\* The most frames receive returns where the RX ring is followed: two more
\* than the ring holds.
MaxRingPackets == Capacity + 1

\* The manager with its RX worker receiving up to MaxRingPackets frames and
\* nothing to send.
NextManagerRing ==
    \/ TmSetRxCallback
    \/ \E buffersOk \in {TRUE}, args \in {MainStartArgs} :
           TmStartUpTo(MaxStartCalls, buffersOk, args)
    \/ \E created \in {TRUE} : TmStartCreateRx(created)
    \/ \E created \in {TRUE} : TmStartCreateTx(created)
    \/ TmStop
    \/ TmStopJoinRx
    \/ TmStopJoinTx
    \/ \E recvLen \in {-1, 0, 1}, err \in {"EAGAIN"} :
           RxReceiveUpTo(MaxRingPackets, recvLen, err)
    \/ RxLoopCheck
    \/ TxPop
    \/ TxLoopCheck

\* The frames <<1>>, ..., <<n>>.
FirstFrames(n) == [k \in 1 .. n |-> <<k>>]

\* C32: nothing ever pops the RX ring, so it fills and stays full: with n the
\* number of positive-length receives, the RX drop counter equals
\* max(0, n - (Capacity - 1)) at every RX loop-iteration boundary, the ring
\* always holds the first min(n, Capacity - 1) received frames, and the RX
\* callback is still invoked for every one of the n frames including those
\* counted as dropped. Capacity is 1024 in the program.
C32_RxRingFillsAndStaysFull ==
    LET n    == rxw_received
        held == IF n < Capacity - 1 THEN n ELSE Capacity - 1
    IN  /\ tm_rxDropCount = n - held
        /\ tm_rxQueue = FirstFrames(held)
        /\ tm_rxCallback => (rxw_callbacks = n)

\* Two frames more than the ring holds were received: both were counted as
\* dropped, and the callback was called for each frame.
C32_Witness ==
    /\ rxw_pc = "check"
    /\ rxw_received = Capacity + 1
    /\ tm_rxDropCount = 2
    /\ Len(tm_rxQueue) = Capacity - 1
    /\ tm_rxCallback
    /\ rxw_callbacks = Capacity + 1

\* The most calls of start where starting again is followed.
MaxLifecycleStarts == MaxStartCalls + 2

\* The manager started, stopped and started again, with every outcome of
\* start, one frame to send, and a receive that returns a frame, times out or
\* fails for good.
NextManagerLifecycle ==
    \/ \E frame \in {<<1>>} : tm_queueCalls = 0 /\ TmQueueTxPacket(frame)
    \/ \E buffersOk \in BOOLEAN, args \in StartArgs :
           TmStartUpTo(MaxLifecycleStarts, buffersOk, args)
    \/ \E created \in BOOLEAN : TmStartCreateRx(created)
    \/ \E created \in BOOLEAN : TmStartCreateTx(created)
    \/ TmStartJoinRx
    \/ TmStop
    \/ TmStopJoinRx
    \/ TmStopJoinTx
    \/ \E recvLen \in {-1, 1}, err \in {"EAGAIN", "EBADF"} :
           RxReceiveUpTo(1, recvLen, err)
    \/ RxLoopCheck
    \/ TxPop
    \/ \E sent \in {TRUE} : TxSend(sent)
    \/ TxAccount
    \/ TxLoopCheck

\* The threads that were created and not joined yet.
LiveThreads(created, joined) ==
    {k \in 1 .. created : \A i \in DOMAIN joined : joined[i] # k}
LiveRx == LiveThreads(rxw_created, rxw_joined)
LiveTx == LiveThreads(txw_created, txw_joined)

\* Every join was made on the handle of a thread that was created, and no
\* handle was joined twice.
JoinedOnce(created, joined) ==
    \A i \in DOMAIN joined :
        /\ joined[i] \in 1 .. created
        /\ \A j \in DOMAIN joined : (i # j) => (joined[i] # joined[j])

\* A step that is a call of start, and one that is a call of stop.
StartCallStep == tm_starts' = tm_starts + 1
StopCallStep == tm_stops' = tm_stops + 1
\* A step in which start returns.
StartReturnStep == start_pc' = "idle" /\ (StartCallStep \/ start_pc # "idle")

\* C33: at most one RX worker and at most one TX worker exist at any time:
\* start on a manager whose running flag is true returns false without
\* creating a thread or changing the node, configuration or error; start
\* returns true only with both workers created; if creating the TX worker
\* fails, running is set back to false, the already-created RX worker is
\* joined and start returns false with error ThreadCreateFail.
C33_AtMostOneWorkerOfEach ==
    /\ [](Cardinality(LiveRx) <= 1 /\ Cardinality(LiveTx) <= 1)
    /\ [][(StartCallStep /\ tm_running) =>
              /\ start_ret' = "false"
              /\ start_pc' = "idle"
              /\ UNCHANGED <<tm_udpNode, tm_config, tm_error, tm_running, tm_rxThread,
                             tm_txThread, tmThreads>>]_vars
    /\ [][(start_pc' = "createTx" /\ start_pc # "createTx") =>
              (start_pc = "createRx" /\ rxw_created' = rxw_created + 1
               /\ tm_rxThread' = rxw_created')]_vars
    /\ [][(StartReturnStep /\ start_ret' = "true") =>
              /\ start_pc = "createTx"
              /\ txw_created' = txw_created + 1
              /\ tm_txThread' = txw_created'
              /\ tm_rxThread' \in LiveRx' /\ tm_txThread' \in LiveTx'
              /\ tm_running']_vars
    /\ [][(start_pc = "createTx" /\ start_pc' # "createTx" /\ txw_created' = txw_created) =>
              /\ start_pc' = "joinRx"
              /\ tm_running' = FALSE
              /\ tm_error' = "ThreadCreateFail"]_vars
    /\ [][(start_pc = "joinRx" /\ start_pc' # "joinRx") =>
              /\ start_pc' = "idle"
              /\ start_ret' = "false"
              /\ tm_error' = "ThreadCreateFail"
              /\ tm_running' = FALSE
              /\ rxw_joined' = Append(rxw_joined, tm_rxThread)
              /\ LiveRx' = {} /\ LiveTx' = {}]_vars

\* A second start, with another node and configuration, was refused while the
\* manager was running with its two workers, and changed nothing.
C33_Witness ==
    /\ tm_starts = 2
    /\ MainThreadFree
    /\ start_ret = "false"
    /\ tm_running
    /\ tm_error = "None"
    /\ tm_udpNode = 1 /\ tm_config = 1
    /\ LiveRx = {1} /\ LiveTx = {1}
    /\ tm_stops = 0

\* C34: stop is idempotent and final: stop on a manager that is not running
\* (never started, or already stopped) does nothing; each worker thread is
\* joined at most once; after stop returns, running is false and neither
\* worker performs any further receive, send, push or pop.
C34_StopIsIdempotentAndFinal ==
    /\ [][(StopCallStep /\ ~tm_running) =>
              UNCHANGED <<tm_running, tm_rxThread, tm_txThread, tm_error, stop_pc,
                          start_pc, tmArgs, start_ret, tmThreads, tmRx, tmTx, tmQueue>>]_vars
    /\ [](JoinedOnce(rxw_created, rxw_joined) /\ JoinedOnce(txw_created, txw_joined))
    /\ [][(stop_pc # "idle" /\ stop_pc' = "idle") =>
              /\ tm_running' = FALSE
              /\ LiveRx' = {} /\ LiveTx' = {}]_vars
    /\ []((LiveRx = {}) => (rxw_pc \in {"none", "exited"}))
    /\ []((LiveTx = {}) => (txw_pc \in {"none", "exited"}))
    /\ [][(LiveRx = {} /\ LiveRx' = {}) =>
              UNCHANGED <<rxw_received, tm_rxPacketCount, tm_rxQueue, tm_rxDropCount,
                          rxw_callbacks>>]_vars
    /\ [][(LiveTx = {} /\ LiveTx' = {}) =>
              /\ UNCHANGED <<tm_sent, tm_sendResults, txw_txBuffer, tm_txPacketCount>>
              /\ Len(tm_txQueue') >= Len(tm_txQueue)]_vars

\* stop joined both workers and returned, a frame that was queued is still in
\* the TX ring, and a second stop did nothing.
C34_Witness ==
    /\ tm_stops = 2
    /\ MainThreadFree
    /\ tm_running = FALSE
    /\ rxw_joined = <<1>> /\ txw_joined = <<1>>
    /\ rxw_pc = "exited" /\ txw_pc = "exited"
    /\ tm_rxThread = 0 /\ tm_txThread = 0
    /\ tm_txQueue = <<<<1>>>>
    /\ start_ret = "true"

(***************************************************************************)
(* The running program: rx_packet between the RX worker, whose callback    *)
(* rxPacketHandler decodes every frame received, and the main thread,      *)
(* whose timer callback commMonitorCallback looks at the link.             *)
(***************************************************************************)

COMM_TIMEOUT_MS == 1000
TX_INTERVAL_MS == 100

\* The member functions of AppPacket that are const: they write no member.
ConstMethods == {"isCommLost", "getTimeSinceLastChange", "getCommTimeout"}

\* getTimeSinceLastChange() with the clock reading t
getTimeSinceLastChange(self, t) == DurationCastU32Ms(Since(t, self.m_last_change_time))

\* getCommTimeout()
getCommTimeout(self) == self.m_comm_timeout_ms

\* Mutant: the health tick records the loss in the error slot of the packet.
commMonitorCallback_RecordsLoss(self, t) ==
    [ self    |-> IF isCommLost(self, t)
                  THEN [self EXCEPT !.m_error = "LossOfCommunication"] ELSE self,
      lost    |-> isCommLost(self, t),
      methods |-> IF isCommLost(self, t) THEN ConstMethods ELSE {"isCommLost"},
      elapsed |-> getTimeSinceLastChange(self, t),
      timeout |-> getCommTimeout(self) ]

\* commMonitorCallback(rx_packet, loop, ui) with the clock reading t: the
\* object afterwards, what isCommLost returned, the member functions called,
\* and what is logged when the link is lost.
commMonitorCallback(self, t) ==
    [ self    |-> self,
      lost    |-> isCommLost(self, t),
      methods |-> IF isCommLost(self, t) THEN ConstMethods ELSE {"isCommLost"},
      elapsed |-> getTimeSinceLastChange(self, t),
      timeout |-> getCommTimeout(self) ]

\* An access to rx_packet's link-health state: the thread, the member function
\* it called, and whether an RX worker existed then.
Access(thread, method) == [thread |-> thread, method |-> method, live |-> LiveRx # {}]

\* main is between a start that returned true and its call of stop: the event
\* loop runs the timer callbacks.
LoopRunning == MainThreadFree /\ start_ret = "true" /\ tm_stops = 0

\* rx_packet.setCommTimeout(COMM_TIMEOUT_MS) and
\* rx_packet.setExpectedInterval(TX_INTERVAL_MS, APP_PACKET_INTERVAL_TOLERANCE_US),
\* which main calls before it hands the callback to the manager
MainConfigureRx ==
    /\ MainThreadFree
    /\ tm_starts = 0
    /\ tm_rxCallback = FALSE
    /\ rx_access = {}
    /\ rx_packet' = setExpectedInterval(setCommTimeout(rx_packet, COMM_TIMEOUT_MS),
                                        TX_INTERVAL_MS,
                                        APP_PACKET_INTERVAL_TOLERANCE_US \div TickUs)
    /\ rx_access' = rx_access \cup {Access("main", "setCommTimeout"),
                                    Access("main", "setExpectedInterval")}
    /\ UNCHANGED <<tx_packet, now, tx_payload, tx_buffer, enc_ret, rx_buffer, dec_ret,
                   dec_read_end, enc_calls, dec_calls, tx_last, tx_sent, rx_last,
                   rx_faulted, enc_ok, tx_first, tick_log>>
    /\ UNCHANGED <<ringVars, monVars, lsVars, pctVars, tmVars, mainVars>>

\* One pass of the body of rxThreadLoop in which receive returns the buffer and
\* the callback, rxPacketHandler, decodes it, step after the last clock reading.
RxReceiveDecode(buffer, lifesign, step) ==
    /\ rxw_received < MaxRxPackets
    /\ RxReceivePass(Len(buffer), "EAGAIN")
    /\ IF tm_rxCallback
       THEN /\ MonDecodeEffect(buffer, lifesign, step)
            /\ rx_access' = rx_access \cup {Access("rx", "decode")}
       ELSE UNCHANGED <<mon_calls, now, rx_packet, rx_buffer, dec_ret, dec_read_end,
                        mon_last, mon_streak, lost_seen, rx_access>>
    /\ UNCHANGED <<ringVars, lsVars, pctVars, mainVars, txSide, dec_calls, rx_last,
                   rx_faulted, tick_log>>

\* The comm monitor timer expires and the event loop calls commMonitorCallback,
\* step after the last clock reading.
MainHealthTick(step) ==
    /\ LoopRunning
    /\ mon_calls < MaxMonitorCalls
    /\ \E r \in {commMonitorCallback(rx_packet, After(now, step))} :
        /\ mon_calls' = mon_calls + 1
        /\ now' = After(now, step)
        /\ rx_packet' = r.self
        /\ mon_last' = [op |-> "isCommLost", lifesign |-> 0, lost |-> r.lost]
        /\ lost_seen' = (lost_seen \/ r.lost)
        /\ rx_access' = rx_access \cup {Access("main", m) : m \in r.methods}
    /\ UNCHANGED <<mon_streak, decodeOut, tick_log>>
    /\ UNCHANGED <<ringVars, lsVars, pctVars, tmVars, mainVars, txSide, dec_calls,
                   rx_last, rx_faulted>>

\* The times between two clock readings of the running program: the TX
\* interval, and the timeout.
ProgramSteps == {Ms(TX_INTERVAL_MS), Ms(COMM_TIMEOUT_MS)}

\* The program as far as rx_packet goes: main configures the packet, sets the
\* callback, starts the workers, runs the health tick and stops; the RX worker
\* receives whole and truncated frames of a peer, the TX worker finds nothing
\* to send.
NextProgramRx ==
    \/ MainConfigureRx
    \/ rx_access # {} /\ TmSetRxCallback
    \/ tm_rxCallback /\ StartAndStop
    \/ \E lifesign \in MonitorLifesigns, step \in {Ms(TX_INTERVAL_MS)} :
           RxReceiveDecode(PeerFrame(lifesign), lifesign, step)
    \/ \E lifesign \in {1}, step \in {Ms(TX_INTERVAL_MS)} :
           RxReceiveDecode(SubSeq(PeerFrame(lifesign), 1, HEADER_SIZE), lifesign, step)
    \/ RxLoopCheck
    \/ TxPop
    \/ TxLoopCheck
    \/ \E step \in ProgramSteps : MainHealthTick(step)

\* A step of the RX worker's callback, and a step of main's health tick.
RxCallbackStep == rxw_callbacks' = rxw_callbacks + 1
HealthTickStep == LoopRunning /\ mon_calls' = mon_calls + 1 /\ UNCHANGED rxw_callbacks

\* The threads that have called a member function of rx_packet that is not
\* const while an RX worker existed.
LiveWriters == {a.thread : a \in {b \in rx_access : b.live /\ b.method \notin ConstMethods}}

\* C31: in the running program the link-health state of rx_packet is written
\* only by the RX worker, inside the decode of the RX callback; the health tick
\* of the main thread only reads it, through isCommLost, getTimeSinceLastChange
\* and getCommTimeout, and no other thread writes it: while an RX worker exists
\* the state has never more than one writer.
C31_OneWriterOfLinkHealth ==
    /\ [](/\ LiveWriters \subseteq {"rx"}
          /\ \A a \in rx_access :
                 /\ (a.live /\ a.thread = "main") => (a.method \in ConstMethods)
                 /\ (a.thread = "rx") => (a.method = "decode"))
    /\ [][/\ (LiveRx # {} /\ rx_packet' # rx_packet) => RxCallbackStep
          /\ HealthTickStep => (rx_packet' = rx_packet)]_vars

\* The RX worker's decode has changed the link-health state, and a health tick
\* of the main thread has then found the link lost and read the time since the
\* last change and the timeout.
C31_Witness ==
    /\ Access("rx", "decode") \in rx_access
    /\ rx_packet.m_rx_lifesign = 1
    /\ LiveRx # {}
    /\ mon_last.op = "isCommLost"
    /\ mon_last.lost
    /\ [thread |-> "main", method |-> "getTimeSinceLastChange", live |-> TRUE] \in rx_access

(***************************************************************************)
(* The running program: tx_packet between the main thread, whose timer     *)
(* callback txTimerCallback encodes a frame and queues it, and the TX      *)
(* worker, which pops the frames and hands them to send.                   *)
(***************************************************************************)

\* uint8_t tx_buffer[256] of txTimerCallback, and the packet size of
\* LockFreeRingBuffer<2048, 1024> m_txQueue
TX_BUFFER_SIZE == 256
TX_QUEUE_PACKET_SIZE == 1024

\* The most TX ticks in a behaviour: enough to fill the ring, be rejected, and
\* be accepted again.
MaxTxTicks == MaxQueueCalls + 2

\* The TX lifesign the program starts from: the constructor's 0, or a value
\* earlier ticks have advanced it to, three before it wraps.
TickLifesignStarts == {0, UINT16_MAX - 2}

\* Mutant: the lifesign is given back when the TX ring takes no frame.
txTimerCallback_LifesignOnQueue(self, txFrames) ==
    LET r == encode(setDataPointer(self, FALSE, Len(TxPayloadLiteral)),
                    TxPayloadLiteral, FALSE, TX_BUFFER_SIZE)
        queued == r.ret > 0 /\ r.ret <= TX_QUEUE_PACKET_SIZE /\ ~QueueFull(txFrames)
    IN  [ self        |-> IF queued THEN r.self
                          ELSE [r.self EXCEPT !.m_lifesign = self.m_lifesign],
          encoded_len |-> r.ret,
          tx_buffer   |-> r.buffer,
          queued      |-> queued ]

\* txTimerCallback(threadMgr, tx_packet, ui) when the TX ring holds txFrames
\* frames: the packet afterwards, what encode returned and wrote, and whether
\* queueTxPacket was called and returned true.
txTimerCallback(self, txFrames) ==
    LET r == encode(setDataPointer(self, FALSE, Len(TxPayloadLiteral)),
                    TxPayloadLiteral, FALSE, TX_BUFFER_SIZE)
    IN  [ self        |-> r.self,
          encoded_len |-> r.ret,
          tx_buffer   |-> r.buffer,
          queued      |-> r.ret > 0 /\ r.ret <= TX_QUEUE_PACKET_SIZE
                          /\ ~QueueFull(txFrames) ]

\* The TX timer expires and the event loop calls txTimerCallback.
MainTxTick ==
    /\ LoopRunning
    /\ enc_calls < MaxTxTicks
    /\ \E r \in {txTimerCallback(tx_packet, Len(tm_txQueue))} :
        /\ enc_calls' = enc_calls + 1
        /\ tx_payload' = TxPayloadLiteral
        /\ tx_packet' = r.self
        /\ enc_ret' = r.encoded_len
        /\ tx_buffer' = r.tx_buffer
        /\ tx_last' = [op |-> "encode", view_length |-> Len(TxPayloadLiteral),
                       buffer_size |-> TX_BUFFER_SIZE, lifesign |-> tx_packet.m_lifesign]
        /\ IF r.encoded_len > 0
           THEN /\ tx_sent' = [unique_id |-> tx_packet.m_unique_id,
                               lifesign  |-> tx_packet.m_lifesign,
                               payload   |-> TxPayloadLiteral,
                               crc       |-> r.self.m_crc32]
                /\ enc_ok' = enc_ok + 1
                /\ TmQueueTxEffect(r.tx_buffer, r.encoded_len > TX_QUEUE_PACKET_SIZE)
                /\ tick_log' = Append(tick_log, [lifesign |-> tx_packet.m_lifesign,
                                                 queued   |-> r.queued])
           ELSE UNCHANGED <<tx_sent, enc_ok, tmVars, tick_log>>
    /\ UNCHANGED <<rxSide, tx_first, rx_access>>
    /\ UNCHANGED <<ringVars, monVars, lsVars, pctVars, mainVars>>

\* The program as far as tx_packet goes: main gives the packet its identifier,
\* starts the workers, runs the TX tick and stops; the TX worker sends, the RX
\* worker's receive times out.
NextProgramTx ==
    \/ \E id \in {U32(4660, 22136)} : TxSetUniqueId(id)
    \/ tx_last # NoCall /\ StartAndStop
    \/ MainTxTick
    \/ TxWorker
    \/ \E recvLen \in {-1}, err \in {"EAGAIN"} : RxReceive(recvLen, err)
    \/ RxLoopCheck

\* The position in tick_log of the tick that encoded the lifesign.
TickOf(lifesign) == CHOOSE k \in DOMAIN tick_log : tick_log[k].lifesign = lifesign

\* The encoded frames the TX ring rejected between the ticks that encoded the
\* two lifesigns.
RejectedBetween(first, second) ==
    Cardinality({k \in DOMAIN tick_log :
                    /\ TickOf(first) < k
                    /\ k < TickOf(second)
                    /\ ~tick_log[k].queued})

\* C39: on the TX tick every successful encode consumes a lifesign, whether
\* queueTxPacket then takes the frame or not: the lifesigns of the frames
\* handed to send strictly advance (mod 65536) in the order they are sent, and
\* the gap between two lifesigns sent one after the other, minus one, is the
\* number of encoded frames the full TX ring rejected in between.
C39_SentLifesignsCountRejected ==
    /\ tx_packet.m_lifesign = U16(tx_first + Len(tick_log))
    /\ \A k \in DOMAIN tick_log : tick_log[k].lifesign = U16(tx_first + k - 1)
    /\ tm_rejected = Cardinality({k \in DOMAIN tick_log : ~tick_log[k].queued})
    /\ \A i \in 1 .. (Len(tm_sent) - 1) :
           LET gap == (FrameLifesign(tm_sent[i + 1]) + (UINT16_MAX + 1)
                       - FrameLifesign(tm_sent[i])) % (UINT16_MAX + 1)
           IN  /\ gap >= 1
               /\ gap - 1 = RejectedBetween(FrameLifesign(tm_sent[i]),
                                            FrameLifesign(tm_sent[i + 1]))

\* The frames with the lifesigns 65534 and 0 were handed to send one after the
\* other: the frame with 65535 between them was rejected by the full TX ring.
C39_Witness ==
    /\ Len(tm_sent) >= 3
    /\ \E i \in 1 .. (Len(tm_sent) - 1) :
           /\ FrameLifesign(tm_sent[i]) = UINT16_MAX - 1
           /\ FrameLifesign(tm_sent[i + 1]) = 0
    /\ \E k \in DOMAIN tick_log : tick_log[k].lifesign = UINT16_MAX /\ ~tick_log[k].queued
    /\ tm_rejected = 1

(***************************************************************************)
(* main, the signal handler and the event loop. The handler runs on the    *)
(* main thread, between two of its steps: the workers block SIGINT and     *)
(* SIGTERM. What the timer callbacks do is left out; none of them stops    *)
(* the loop.                                                               *)
(***************************************************************************)

\* The most signals delivered in a behaviour.
MaxSignals == 2

EXIT_SUCCESS == 0
EXIT_FAILURE == 1
SIGINT == 2
SIGTERM == 15

notMain == <<ringVars, pktVars, monVars, lsVars, pctVars, tmVars, progVars>>

\* Mutant: a thread manager that did not start is not looked at.
StartFailed_Never(started) == FALSE

\* if (threadMgr.start(udp_node, threadConfig) == false)
StartFailed(started) == started = FALSE

\* main goes to main_exit with EXIT_FAILURE because the step failed
MainFails(step) ==
    /\ main_ret' = EXIT_FAILURE
    /\ main_failed' = step
    /\ main_pc' = "exited"

\* signalHandler.initialize(): both sigaction calls succeed, or one fails
MainInitSignals(ok) ==
    /\ main_pc = "initSignals"
    /\ IF ok
       THEN /\ sh_initialized' = TRUE
            /\ main_pc' = "parseArgs"
            /\ UNCHANGED <<main_ret, main_failed>>
       ELSE /\ MainFails("signalHandler")
            /\ UNCHANGED sh_initialized
    /\ UNCHANGED <<sh_callbacks, s_shutdownRequested, s_signalNumber, ev_running,
                   ev_error, sig_count, sig_registered, notMain>>

\* parseUdpPeerArgs(argc, argv, peer_args)
MainParseArgs(ok) ==
    /\ main_pc = "parseArgs"
    /\ IF ok
       THEN main_pc' = "initSocket" /\ UNCHANGED <<main_ret, main_failed>>
       ELSE MainFails("arguments")
    /\ UNCHANGED <<sh_initialized, sh_callbacks, s_shutdownRequested, s_signalNumber,
                   ev_running, ev_error, sig_count, sig_registered, notMain>>

\* udp_node.initialize(...) and the test of udp_node.getError()
MainInitSocket(ok) ==
    /\ main_pc = "initSocket"
    /\ IF ok
       THEN main_pc' = "startThreads" /\ UNCHANGED <<main_ret, main_failed>>
       ELSE MainFails("socket")
    /\ UNCHANGED <<sh_initialized, sh_callbacks, s_shutdownRequested, s_signalNumber,
                   ev_running, ev_error, sig_count, sig_registered, notMain>>

\* threadMgr.start(udp_node, threadConfig) returns started
MainStartThreads(started) ==
    /\ main_pc = "startThreads"
    /\ IF StartFailed(started)
       THEN MainFails("threads")
       ELSE /\ main_pc' = "initLoop"
            /\ main_failed' = IF started THEN main_failed ELSE "threads"
            /\ UNCHANGED main_ret
    /\ UNCHANGED <<sh_initialized, sh_callbacks, s_shutdownRequested, s_signalNumber,
                   ev_running, ev_error, sig_count, sig_registered, notMain>>

\* loop.initialize(0): epoll_create1 succeeds or fails; main goes on either way
\* and sets up the timers
MainInitLoop(ok) ==
    /\ main_pc = "initLoop"
    /\ ev_error' = IF ok THEN ev_error ELSE "EventCreateFail"
    /\ main_pc' = "registerCallback"
    /\ UNCHANGED <<main_ret, sh_initialized, sh_callbacks, s_shutdownRequested,
                   s_signalNumber, ev_running, main_failed, sig_count, sig_registered,
                   notMain>>

\* signalHandler.registerCallback([&loop](int) { loop.stop(); })
MainRegisterCallback ==
    /\ main_pc = "registerCallback"
    /\ sh_callbacks' = TRUE
    /\ main_pc' = "initUi"
    /\ UNCHANGED <<main_ret, sh_initialized, s_shutdownRequested, s_signalNumber,
                   ev_running, ev_error, main_failed, sig_count, sig_registered, notMain>>

\* ui.initialize()
MainInitUi ==
    /\ main_pc = "initUi"
    /\ main_pc' = "testShutdown"
    /\ UNCHANGED <<main_ret, sh_initialized, sh_callbacks, s_shutdownRequested,
                   s_signalNumber, ev_running, ev_error, main_failed, sig_count,
                   sig_registered, notMain>>

\* while (signalHandler.isShutdownRequested() == false)
MainTestShutdown ==
    /\ main_pc = "testShutdown"
    /\ main_pc' = IF s_shutdownRequested = FALSE THEN "run" ELSE "shutdown"
    /\ UNCHANGED <<main_ret, sh_initialized, sh_callbacks, s_shutdownRequested,
                   s_signalNumber, ev_running, ev_error, main_failed, sig_count, sig_registered,
                   notMain>>

\* loop.run() is entered: m_running = true
LoopRun ==
    /\ main_pc = "run"
    /\ ev_running' = TRUE
    /\ main_pc' = "testRunning"
    /\ UNCHANGED <<main_ret, sh_initialized, sh_callbacks, s_shutdownRequested,
                   s_signalNumber, ev_error, main_failed, sig_count, sig_registered,
                   notMain>>

\* while (m_running == true); run returns when it is false
LoopTestRunning ==
    /\ main_pc = "testRunning"
    /\ main_pc' = IF ev_running = TRUE THEN "epollWait" ELSE "testShutdown"
    /\ UNCHANGED <<main_ret, sh_initialized, sh_callbacks, s_shutdownRequested,
                   s_signalNumber, ev_running, ev_error, main_failed, sig_count, sig_registered,
                   notMain>>

\* epoll_wait returns, because a timer has expired or a signal was handled, and
\* the callbacks of the ready descriptors are called
LoopDispatch ==
    /\ main_pc = "epollWait"
    /\ main_pc' = "testRunning"
    /\ UNCHANGED <<main_ret, sh_initialized, sh_callbacks, s_shutdownRequested,
                   s_signalNumber, ev_running, ev_error, main_failed, sig_count, sig_registered,
                   notMain>>

\* ui.shutdown(); threadMgr.stop(); main_ret = EXIT_SUCCESS; return main_ret
MainShutdown ==
    /\ main_pc = "shutdown"
    /\ main_ret' = EXIT_SUCCESS
    /\ main_pc' = "exited"
    /\ UNCHANGED <<sh_initialized, sh_callbacks, s_shutdownRequested, s_signalNumber,
                   ev_running, ev_error, main_failed, sig_count, sig_registered, notMain>>

\* SIGINT or SIGTERM is delivered to the main thread once the handlers are
\* installed: signalHandlerFunction(signum)
SignalDelivered(signum) ==
    /\ sh_initialized
    /\ main_pc # "exited"
    /\ sig_count < MaxSignals
    /\ sig_count' = sig_count + 1
    /\ s_signalNumber' = signum
    /\ s_shutdownRequested' = TRUE
    /\ ev_running' = IF sh_callbacks THEN FALSE ELSE ev_running
    /\ sig_registered' = (sig_registered \/ sh_callbacks)
    /\ UNCHANGED <<main_pc, main_ret, sh_initialized, sh_callbacks, ev_error, main_failed,
                   notMain>>

\* The steps of the main thread.
MainThread ==
    \/ \E ok \in BOOLEAN : MainInitSignals(ok)
    \/ \E ok \in BOOLEAN : MainParseArgs(ok)
    \/ \E ok \in BOOLEAN : MainInitSocket(ok)
    \/ \E started \in BOOLEAN : MainStartThreads(started)
    \/ \E ok \in BOOLEAN : MainInitLoop(ok)
    \/ MainRegisterCallback
    \/ MainInitUi
    \/ MainTestShutdown
    \/ LoopRun
    \/ LoopTestRunning
    \/ LoopDispatch
    \/ MainShutdown

NextMain ==
    \/ MainThread
    \/ \E signum \in {SIGINT, SIGTERM} : SignalDelivered(signum)

\* C24: when SIGINT or SIGTERM is delivered to the main thread at any moment
\* after the callback that stops the loop was registered, the handler sets
\* the shutdown flag and calls EventLoop::stop, EventLoop::run returns, and
\* main's loop `while (isShutdownRequested() == false) loop.run()` ends, with no
\* further signal.
C24_SignalEndsMainLoop == sig_registered ~> (main_pc \in {"shutdown", "exited"})

\* C25: main returns 0 only if every start-up step succeeded and the shutdown
\* flag, set by a signal, was then found true; it returns a non-zero code
\* when the signal handler, the arguments, the socket or the thread manager
\* failed.
C25_ExitCode ==
    (main_pc = "exited") =>
        /\ (main_ret = 0) =>
               (main_failed = "none" /\ s_shutdownRequested /\ sig_count > 0)
        /\ (main_failed # "none") => (main_ret # 0)

\* main has returned 0 after one SIGTERM that came while the loop was running.
C25_Witness ==
    /\ main_pc = "exited"
    /\ main_ret = 0
    /\ main_failed = "none"
    /\ sig_count = 1
    /\ sig_registered
    /\ s_signalNumber = SIGTERM

(***************************************************************************)
(* The instants of rx_packet's monitor and its streak of unstable updates. *)
(***************************************************************************)
\* Mutant: the constructor reads the clock for m_last_recv_time first.
AppPacketAt_RecvFirst(t1, t2) == [AppPacket(t2) EXCEPT !.m_last_recv_time = t1]

\* AppPacket::AppPacket() with its two clock readings: t1 for
\* m_last_change_time, then t2 for m_last_recv_time.
AppPacketAt(t1, t2) == [AppPacket(t1) EXCEPT !.m_last_recv_time = t2]

\* The time between the constructor's two clock readings: none, or a tick.
ConstructionSteps == {Ticks(0), Ticks(1)}

\* The times between two clock readings of the monitor's calls: none, 95 ms,
\* and 2^32 ms.
OrderSteps == {Ticks(0), Ms(95)} \cup LongSteps

\* a <= b for two readings of the steady clock
NotAfter(a, b) == (a.e < b.e) \/ (a.e = b.e /\ a.t <= b.t)

\* C26: in every reachable state of the RX-side monitor (after construction,
\* any sequence of decodes and resets), last_change_instant <=
\* last_recv_instant <= now, now being the last reading of the steady clock.
C26_InstantsAreOrdered ==
    /\ NotAfter(rx_packet.m_last_change_time, rx_packet.m_last_recv_time)
    /\ NotAfter(rx_packet.m_last_recv_time, now)

\* A frame with the lifesign the monitor already held was decoded some time
\* after a reset: the last change is earlier than the last receive, which is
\* the last clock reading.
C26_Witness ==
    /\ mon_last.op = "decode"
    /\ dec_ret
    /\ mon_calls >= 2
    /\ rx_packet.m_last_change_time # rx_packet.m_last_recv_time
    /\ rx_packet.m_last_change_time # TimeOf(0, 0)
    /\ rx_packet.m_last_recv_time = now

\* C27: unstable_streak saturates: after k consecutive out-of-tolerance updates
\* with no in-tolerance update or reset in between, unstable_streak equals
\* min(k, 65535); it never wraps to 0 while the intervals stay out of
\* tolerance.
C27_StreakSaturates ==
    rx_packet.m_unstable_counter =
        IF mon_streak < UINT16_MAX THEN mon_streak ELSE UINT16_MAX

\* The 65536th out-of-tolerance update in a row has been made.
C27_Witness ==
    /\ mon_streak = UINT16_MAX + 1
    /\ mon_last.op \in {"updateReceivedLifesign", "decode"}
    /\ rx_packet.m_comm_unstable
    /\ rx_packet.m_unstable_counter = UINT16_MAX

\* C35: in every reachable state of the RX-side monitor the unstable flag is
\* true if and only if unstable_streak > 0 (after construction, any sequence of
\* link-health updates, and resets).
C35_UnstableIffStreakPositive ==
    rx_packet.m_comm_unstable <=> (rx_packet.m_unstable_counter > 0)

\* The 65535th out-of-tolerance update in a row has brought the streak to its
\* limit, with the flag set.
C35_Witness ==
    /\ mon_streak = UINT16_MAX
    /\ mon_calls >= 1
    /\ mon_last.op \in {"updateReceivedLifesign", "decode"}
    /\ rx_packet.m_comm_unstable
    /\ rx_packet.m_unstable_counter = UINT16_MAX

\* The shortest expected interval whose microseconds exceed a uint32_t:
\* 4294968 ms, which is 2^32 + 704 microseconds.
WrappingIntervalMs == TwoPow32Us \div TicksPerMs + 1

\* The settings of the monitors whose interval arithmetic is followed: main's,
\* an expected interval that wraps, and a tolerance that makes E + T wrap.
WrapSettings ==
    MonitorSettings
    \cup { [interval_ms |-> WrappingIntervalMs,
            tolerance_us |-> APP_PACKET_INTERVAL_TOLERANCE_US \div TickUs] }

WrapStarts ==
    { setExpectedInterval(AppPacket(TimeOf(0, 0)), c.interval_ms, c.tolerance_us) :
          c \in WrapSettings }

\* The gaps between two updates: on and next to the bounds of the default
\* tolerance, 704 us, one tick less than 2^32 us, and 2^32 us + 100 ms.
WrapSteps ==
    { Ticks(Ms(95).t - 1), Ms(95), Ms(105), Ticks(Ms(105).t + 1),
      Ticks((WrappingIntervalMs * TicksPerMs) % TwoPow32Us),
      Ticks(TwoPow32Us - 1), TimeOf(1, Ms(100).t) }

\* The true time since the previous update when the step's update runs, in
\* ticks.
TrueGapOfStep ==
    LET d == Since(now', rx_packet.m_last_recv_time)
    IN  d.e * TwoPow32Us + d.t

\* rx_packet has main's settings: 100 ms with a tolerance of 5000 us.
DefaultSettings ==
    /\ rx_packet.m_expected_interval_ms = APP_PACKET_EXPECTED_INTERVAL_MS
    /\ rx_packet.m_tolerance_us = APP_PACKET_INTERVAL_TOLERANCE_US \div TickUs

\* C38: the interval check uses 32-bit unsigned arithmetic: last_interval_us is
\* the elapsed microseconds since the previous update reduced modulo 2^32, and
\* E = expected_interval_ms * 1000 and E + T are computed modulo 2^32; for the
\* default E = 100000 and T = 5000 every true gap below 2^32 us is classified
\* like its exact value, while a true gap of 2^32 + 100000 us is classified in
\* tolerance.
C38_IntervalArithmeticIs32Bit ==
    [][UpdateStep =>
        LET E     == (rx_packet.m_expected_interval_ms * TicksPerMs) % TwoPow32Us
            T     == rx_packet.m_tolerance_us
            lower == IF E > T THEN E - T ELSE 0
            upper == (E + T) % TwoPow32Us
            gap   == TrueGapOfStep
        IN  /\ rx_packet'.m_last_interval_us = gap % TwoPow32Us
            /\ rx_packet'.m_comm_unstable <=>
                   ~(lower <= gap % TwoPow32Us /\ gap % TwoPow32Us <= upper)
            /\ (DefaultSettings /\ gap < TwoPow32Us) =>
                   (rx_packet'.m_comm_unstable <=> ~(Ms(95).t <= gap /\ gap <= Ms(105).t))
            /\ (DefaultSettings /\ gap = TwoPow32Us + Ms(100).t) =>
                   ~rx_packet'.m_comm_unstable
      ]_vars

\* With main's settings an update came 2^32 us + 100 ms after the one before
\* and was taken as in tolerance, its interval 100 ms.
C38_Witness ==
    /\ DefaultSettings
    /\ mon_calls >= 2
    /\ mon_last.op = "updateReceivedLifesign"
    /\ now.e >= 1
    /\ rx_packet.m_last_recv_time = now
    /\ rx_packet.m_last_interval_us = Ms(100).t
    /\ ~rx_packet.m_comm_unstable
    /\ rx_packet.m_unstable_counter = 0

\* m_writeIdx is where m_count places it, or one cell ahead of that while a
\* recordSample is between its store of the index and its fetch_add.
WriteIdxFollowsCount ==
    /\ \/ ls_writeIdx = ls_count % StatsCapacity
       \/ ls_writeIdx = (ls_count + 1) % StatsCapacity
    /\ (ls_writeIdx # ls_count % StatsCapacity) => (rec_pc = "count")
    /\ (rec_pc = "idle") => (ls_writeIdx = ls_count % StatsCapacity)

\* C36: in the latency sampler, with a single producer and no reset, every
\* reachable state satisfies write_idx = total mod C or write_idx = (total + 1)
\* mod C, the second only while a recordSample has published the index but not
\* yet bumped the total; whenever no recordSample is in progress write_idx =
\* total mod C, and the total count never decreases.
C36_WriteIdxFollowsCount ==
    /\ []WriteIdxFollowsCount
    /\ [][ls_count' >= ls_count]_vars

\* A recordSample has stored the index that wraps to 0 and has not yet added
\* to the count.
C36_Witness ==
    /\ rec_pc = "count"
    /\ ls_count = StatsCapacity - 1
    /\ ls_writeIdx = 0
    /\ ls_writeIdx # ls_count % StatsCapacity

(***************************************************************************)
(* percentile on its own, on sorted vectors of the samples 1 us, 2 us, ... *)
(***************************************************************************)

\* The sorted vector of the n samples 1 us .. n us, in nanoseconds.
Ramp(n) == [i \in 1 .. n |-> i * 1000]

notPct == <<ringVars, pktVars, monVars, lsVars, tmVars, mainVars, progVars>>

\* percentile(sorted, p) is called on the ramp of pct_size samples and returns
PercentileCall(q) ==
    /\ pct_pc = "idle"
    /\ pct_pc' = "returned"
    /\ pct_p' = q.hundredths
    /\ pct_ret' = percentile(Ramp(pct_size), q)
    /\ UNCHANGED <<pct_size, notPct>>

NextPercentile == \E q \in Percentiles : PercentileCall(q)

\* min(n, max(1, ceil(p * n / 100))) in exact arithmetic, p in hundredths
NearestRank(n, hundredths) ==
    LET rank == (hundredths * n + 9999) \div 10000
    IN  IF rank < 1 THEN 1 ELSE IF rank > n THEN n ELSE rank

\* C21: each percentile computeStats reports is the nearest-rank element
\* sorted[min(n, max(1, ceil(p * n / 100))) - 1] of the sorted snapshot of n
\* samples, for p = 50, 95, 99, 99.9 and 99.99; for 100000 samples with the
\* values 1 us .. 100000 us that is 50000, 95000, 99000, 99900 and 99990 us.
C21_PercentileIsNearestRank ==
    pct_pc = "returned" =>
        /\ pct_ret = NsToUs(Ramp(pct_size)[NearestRank(pct_size, pct_p)])
        /\ (pct_size = LATENCY_STATS_DEFAULT_CAPACITY) =>
               pct_ret = NsToUs(pct_p * 10000)

\* The calls made on tx_packet alone.
NextTx ==
    \/ \E id \in UniqueIds : TxSetUniqueId(id)
    \/ \E region \in PayloadRegions : TxSetDataPointer(region)
    \/ TxSetDataPointerNull
    \/ \E buffer_size \in EncodeBufferSizes(tx_last.view_length) : TxEncode(buffer_size)
    \/ TxEncodeNull

\* The sender builds frames and the receiver decodes what arrives.
NextCodec ==
    \/ \E id \in UniqueIds : TxSetUniqueId(id)
    \/ \E region \in PayloadRegions : TxSetDataPointer(region)
    \/ \E buffer_size \in EncodeBufferSizes(tx_last.view_length) : TxEncode(buffer_size)
    \/ \E step \in ClockSteps : RxDecodeWire(step)
    \/ \E bit \in 0 .. (8 * Len(tx_buffer) - 1), step \in ClockSteps : RxDecodeFlipped(bit, step)
    \/ \E n \in 0 .. (Len(tx_buffer) - 1), step \in ClockSteps : RxDecodeTruncated(n, step)
    \/ \E declared \in CraftedDeclared, buffer_size \in CraftedSizes, step \in ClockSteps :
           RxDecodeCrafted(declared, buffer_size, step)
    \/ \E step \in ClockSteps : RxDecodeNull(step)

InitPkt == InitPktAt(0)

\* Before percentile is called on a sorted vector of n samples.
InitPctAt(n) ==
    /\ pct_size = n
    /\ pct_pc = "idle"
    /\ pct_p = 0
    /\ pct_ret = NsToUs(0)

InitPct == InitPctAt(1)

\* main is entered.
InitMain ==
    /\ main_pc = "initSignals"
    /\ main_ret = EXIT_FAILURE
    /\ sh_initialized = FALSE
    /\ sh_callbacks = FALSE
    /\ s_shutdownRequested = FALSE
    /\ s_signalNumber = 0
    /\ ev_running = FALSE
    /\ ev_error = "None"
    /\ main_failed = "none"
    /\ sig_count = 0
    /\ sig_registered = FALSE

\* No access to rx_packet's link-health state and no TX tick yet.
InitProg ==
    /\ rx_access = {}
    /\ tick_log = <<>>

\* The thread manager after construction.
InitTm ==
    /\ tm_running = FALSE
    /\ tm_rxThread = 0
    /\ tm_txThread = 0
    /\ tm_error = "None"
    /\ tm_rxCallback = FALSE
    /\ tm_rxPacketCount = 0
    /\ tm_txPacketCount = 0
    /\ tm_rxDropCount = 0
    /\ tm_txDropCount = 0
    /\ tm_firstRxPacket = TRUE
    /\ tm_rxQueue = <<>>
    /\ tm_txQueue = <<>>
    /\ tm_rxLatencyStats = 0
    /\ tm_txLatencyStats = 0
    /\ tm_rxIntervalStats = 0
    /\ start_pc = "idle"
    /\ stop_pc = "idle"
    /\ rxw_pc = "none"
    /\ rxw_recvLen = 0
    /\ rxw_errno = "none"
    /\ rxw_shouldExit = FALSE
    /\ txw_pc = "none"
    /\ txw_txBuffer = <<>>
    /\ txw_sentLen = 0
    /\ tm_queued = <<>>
    /\ tm_rejected = 0
    /\ tm_sent = <<>>
    /\ tm_sendResults = <<>>
    /\ rxw_received = 0
    /\ rxw_callbacks = 0
    /\ tm_starts = 0
    /\ tm_stops = 0
    /\ tm_queueCalls = 0
    /\ tm_udpNode = 0
    /\ tm_config = 0
    /\ start_ret = "none"
    /\ rxw_created = 0
    /\ rxw_joined = <<>>
    /\ txw_created = 0
    /\ txw_joined = <<>>

\* The sampler after construction.
InitLs ==
    /\ ls_samples = [i \in 0 .. (StatsCapacity - 1) |-> 0]
    /\ ls_writeIdx = 0
    /\ ls_count = 0
    /\ rec_pc = "idle"
    /\ rec_latency_ns = 0
    /\ rec_idx = 0
    /\ cs_pc = "idle"
    /\ cs_totalCount = 0
    /\ cs_writePos = 0
    /\ cs_sorted = <<>>
    /\ cs_result = ZeroResult
    /\ ls_recorded = <<>>
    /\ rec_calls = 0
    /\ cs_calls = 0
    /\ cs_seen = <<>>
    /\ cs_quiet = TRUE
    /\ cs_visible = 0

\* The calls made on rx_packet's interval check.
NextInterval ==
    \/ \E lifesign \in MonitorLifesigns, step \in IntervalSteps : MonUpdate(lifesign, step)
    \/ \E step \in {Ticks(0), Ms(95)} : MonDecode(1, step)
    \/ \E step \in {Ms(95)} : MonDecodeShort(1, step)
    \/ \E step \in {Ms(APP_PACKET_COMM_TIMEOUT_MS)} : MonReset(step)

\* The calls made on rx_packet's lifesign timeout.
NextTimeout ==
    \/ \E lifesign \in MonitorLifesigns, step \in TimeoutSteps : MonDecode(lifesign, step)
    \/ \E step \in TimeoutSteps \cup LongSteps : MonQuery(step)
    \/ \E step \in {Ms(APP_PACKET_COMM_TIMEOUT_MS)} : MonReset(step)

Init == InitRing /\ InitPkt /\ InitMon /\ InitLs /\ InitPct /\ InitTm /\ InitMain /\ InitProg

\* The codec's behaviours start with the TX lifesign at any of TxLifesignStarts.
InitCodec == InitRing /\ InitMon /\ InitLs /\ InitPct /\ InitTm /\ InitMain /\ InitProg /\ \E l \in TxLifesignStarts : InitPktAt(l)

SpecRing == Init /\ [][NextRing]_vars

SpecTx == InitCodec /\ [][NextTx]_vars

SpecCodec == InitCodec /\ [][NextCodec]_vars

\* The monitor of rx_packet, started from each of MonitorStarts.
InitMonitor ==
    /\ InitRing /\ InitLs /\ InitPct /\ InitTm /\ InitMain /\ InitProg
    /\ now = TimeOf(0, 0)
    /\ tx_packet = AppPacket(TimeOf(0, 0))
    /\ rx_packet \in MonitorStarts
    /\ InitMonAt(rx_packet.m_unstable_counter)
    /\ tx_payload = <<>>
    /\ tx_buffer = <<>>
    /\ enc_ret = 0
    /\ rx_buffer = <<>>
    /\ dec_ret = FALSE
    /\ dec_read_end = 0
    /\ enc_calls = 0
    /\ dec_calls = 0
    /\ tx_last = NoCall
    /\ tx_sent = NoFrame
    /\ rx_last = NoInput
    /\ rx_faulted = FALSE
    /\ enc_ok = 0
    /\ tx_first = 0

SpecInterval == InitMonitor /\ [][NextInterval]_vars

\* The monitor of rx_packet, started from each of WrapStarts.
InitWrap ==
    /\ InitRing /\ InitMon /\ InitLs /\ InitPct /\ InitTm /\ InitMain /\ InitProg
    /\ now = TimeOf(0, 0)
    /\ tx_packet = AppPacket(TimeOf(0, 0))
    /\ rx_packet \in WrapStarts
    /\ tx_payload = <<>>
    /\ tx_buffer = <<>>
    /\ enc_ret = 0
    /\ rx_buffer = <<>>
    /\ dec_ret = FALSE
    /\ dec_read_end = 0
    /\ enc_calls = 0
    /\ dec_calls = 0
    /\ tx_last = NoCall
    /\ tx_sent = NoFrame
    /\ rx_last = NoInput
    /\ rx_faulted = FALSE
    /\ enc_ok = 0
    /\ tx_first = 0

\* The updates of rx_packet's interval check, the gaps any of WrapSteps.
NextWrap ==
    \/ \E lifesign \in MonitorLifesigns, step \in WrapSteps : MonUpdate(lifesign, step)
    \/ \E step \in WrapSteps : MonDecode(1, step)
    \/ \E step \in {Ms(APP_PACKET_EXPECTED_INTERVAL_MS)} : MonReset(step)

SpecWrap == InitWrap /\ [][NextWrap]_vars

\* The monitor of rx_packet from its construction on, the constructor's two
\* clock readings being any of ConstructionSteps apart.
InitOrder ==
    /\ InitRing /\ InitMon /\ InitLs /\ InitPct /\ InitTm /\ InitMain /\ InitProg
    /\ \E d \in ConstructionSteps :
        /\ now = After(TimeOf(0, 0), d)
        /\ rx_packet = AppPacketAt(TimeOf(0, 0), After(TimeOf(0, 0), d))
    /\ tx_packet = AppPacket(TimeOf(0, 0))
    /\ tx_payload = <<>>
    /\ tx_buffer = <<>>
    /\ enc_ret = 0
    /\ rx_buffer = <<>>
    /\ dec_ret = FALSE
    /\ dec_read_end = 0
    /\ enc_calls = 0
    /\ dec_calls = 0
    /\ tx_last = NoCall
    /\ tx_sent = NoFrame
    /\ rx_last = NoInput
    /\ rx_faulted = FALSE
    /\ enc_ok = 0
    /\ tx_first = 0

\* The calls that read the clock for rx_packet's monitor.
NextOrder ==
    \/ \E lifesign \in MonitorLifesigns, step \in OrderSteps : MonUpdate(lifesign, step)
    \/ \E lifesign \in MonitorLifesigns, step \in OrderSteps : MonDecode(lifesign, step)
    \/ \E step \in OrderSteps : MonDecodeShort(1, step)
    \/ \E step \in OrderSteps : MonQuery(step)
    \/ \E step \in OrderSteps : MonReset(step)

SpecOrder == InitOrder /\ [][NextOrder]_vars

SpecTimeout == Init /\ [][NextTimeout]_vars

SpecSampler == Init /\ [][NextSampler]_vars

SpecSamplerRace == Init /\ [][NextSamplerRace]_vars

SpecManagerRx == Init /\ [][NextManagerRx]_vars

SpecManagerTx == Init /\ [][NextManagerTx]_vars

SpecManagerRing == Init /\ [][NextManagerRing]_vars

SpecManagerLifecycle == Init /\ [][NextManagerLifecycle]_vars

SpecProgramRx == Init /\ [][NextProgramRx]_vars

\* The program with the TX lifesign at one of its starts.
InitProgramTx ==
    /\ InitRing /\ InitMon /\ InitLs /\ InitPct /\ InitTm /\ InitMain /\ InitProg
    /\ \E l \in TickLifesignStarts : InitPktAt(l)

SpecProgramTx == InitProgramTx /\ [][NextProgramTx]_vars

\* Every receive and every send returns, a worker that can take a step takes
\* one, and a join returns once its thread has ended.
SpecManagerLive ==
    /\ Init /\ [][NextManagerLive]_vars
    /\ WF_vars(RxWorkerLive)
    /\ WF_vars(TxWorker)
    /\ WF_vars(StopJoins)

SpecMain == Init /\ [][NextMain]_vars

\* The main thread goes on as long as it can: every call it makes returns, and
\* epoll_wait returns with each expiry of the periodic timers.
SpecMainLive == SpecMain /\ WF_vars(MainThread)

\* percentile is handed the ramp of any of RampSizes.
InitPercentile ==
    /\ InitRing /\ InitPkt /\ InitMon /\ InitLs /\ InitTm /\ InitMain /\ InitProg
    /\ \E n \in RampSizes : InitPctAt(n)

SpecPercentile == InitPercentile /\ [][NextPercentile]_vars

====
